---- MODULE Spec2Model ----
(***************************************************************************)
(* A model of src/bot.py: the caption formatter with its rotating prefix,  *)
(* the per-requester file sessions and the /endsequence delivery.          *)
(*                                                                         *)
(* Texts (captions, filenames) are sequences of one-character strings, so  *)
(* that the regular expressions of the source are matched character by     *)
(* character.  Handlers are coroutines: every handler is cut into the      *)
(* blocks that run between two suspension points (an await on the          *)
(* transport or on the database), and the blocks of different updates      *)
(* interleave, as they do under the webhook of main().                     *)
(***************************************************************************)
EXTENDS Integers, Sequences, FiniteSets, TLC

(***************************************************************************)
(* Bounds of the model.                                                    *)
(***************************************************************************)
\* files ingested over a run (over all sessions)
MaxFiles == 3
\* list objects alive at the same time
MaxLists == 2
\* /endsequence handlers that can be suspended at the same time
MaxTasks == 2
\* formatter calls over a run of the rotation
MaxCalls == 7
\* formatter calls over a run with overlapping handlers
MaxOverlappingCalls == 4
\* formatter calls over a run of every operation
MaxCountedCalls == 2
\* files ingested over a run of every operation
MaxCountedFiles == 1
\* formatter calls over a run with /name
MaxNamedCalls == 2
\* formatter calls over a run of the captions with extensions
MaxCaptionCalls == 4
\* formatter calls over a run whose formatted captions are taken as filenames
MaxRoundTripCalls == 1
\* /format calls over a run of the parser's texts
MaxParsedCalls == 4
\* formatting and settings handlers that can be suspended at the same time
MaxHandlers == 2
\* database calls that raise over a run
MaxDbErrors == 1
\* transport calls of the suspended handlers that raise
MaxErrors == 1

Users == {"u1", "u2"}

\* Python's None for the optional integers of VideoFile
None == -1

(***************************************************************************)
(* Characters and digit runs.                                              *)
(***************************************************************************)
Digits == {"0", "1", "2", "3", "4", "5", "6", "7", "8", "9"}

DigitVal(c) ==
    CASE c = "0" -> 0 [] c = "1" -> 1 [] c = "2" -> 2 [] c = "3" -> 3
      [] c = "4" -> 4 [] c = "5" -> 5 [] c = "6" -> 6 [] c = "7" -> 7
      [] c = "8" -> 8 [] c = "9" -> 9

\* int(s) of a non-empty digit string
RECURSIVE ToInt(_)
ToInt(s) ==
    IF s = <<>> THEN 0
    ELSE 10 * ToInt(SubSeq(s, 1, Len(s) - 1)) + DigitVal(s[Len(s)])

\* the last position of the maximal digit run that starts at i (i-1: no digit at i)
RECURSIVE DigitsEnd(_, _)
DigitsEnd(t, i) ==
    IF i <= Len(t) /\ t[i] \in Digits THEN DigitsEnd(t, i + 1) ELSE i - 1

CharAt(t, i, c) == i >= 1 /\ i <= Len(t) /\ t[i] = c

(***************************************************************************)
(* class VideoFile                                                         *)
(***************************************************************************)
\* \[S\d+-E(\d+)\] matched at position i: <<first, last>> of group 1 and the
\* position of the closing bracket, or <<>> when it does not match there
EpisodeTagAt(t, i) ==
    LET a == DigitsEnd(t, i + 2)
        b == DigitsEnd(t, a + 3)
    IN  IF /\ CharAt(t, i, "[") /\ CharAt(t, i + 1, "S")
           /\ a >= i + 2
           /\ CharAt(t, a + 1, "-") /\ CharAt(t, a + 2, "E")
           /\ b >= a + 3
           /\ CharAt(t, b + 1, "]")
        THEN <<a + 3, b, b + 1>>
        ELSE <<>>

\* \[(\d+)(P)?\] matched at position j: <<first, last>> of group 1, or <<>>
QualityTagAt(t, j) ==
    LET d == DigitsEnd(t, j + 1)
    IN  IF /\ CharAt(t, j, "[")
           /\ d >= j + 1
           /\ \/ CharAt(t, d + 1, "]")
              \/ CharAt(t, d + 1, "P") /\ CharAt(t, d + 2, "]")
        THEN <<j + 1, d>>
        ELSE <<>>

\* "." matches every character but the line break
NoLineBreak(t, from, to) == \A k \in from..to : t[k] # "\n"

\* re.search(r'\[S\d+-E(\d+)\]', text): the leftmost match, None without one
SearchEpisode(t) ==
    LET starts == {i \in 1..Len(t) : EpisodeTagAt(t, i) # <<>>}
    IN  IF starts = {} THEN <<>>
        ELSE LET i == CHOOSE x \in starts : \A y \in starts : x <= y
             IN  EpisodeTagAt(t, i)

\* re.search(r'\[S\d+-E\d+\].*\[(\d+)(P)?\]', text): the leftmost start, and for
\* it the greedy ".*", that is the last quality bracket of the line
SearchQuality(t) ==
    LET Ends(i) == {j \in (EpisodeTagAt(t, i)[3] + 1)..Len(t) :
                        /\ QualityTagAt(t, j) # <<>>
                        /\ NoLineBreak(t, EpisodeTagAt(t, i)[3] + 1, j - 1)}
        starts == {i \in 1..Len(t) : EpisodeTagAt(t, i) # <<>> /\ Ends(i) # {}}
    IN  IF starts = {} THEN <<>>
        ELSE LET i == CHOOSE x \in starts : \A y \in starts : x <= y
                 j == CHOOSE x \in Ends(i) : \A y \in Ends(i) : x >= y
             IN  QualityTagAt(t, j)

common_qualities == {144, 240, 360, 480, 720, 1080, 1440, 2160}

extract_episode_number(filename, caption) ==
    LET m1 == SearchEpisode(filename)
        m2 == SearchEpisode(caption)
    IN  IF m1 # <<>> THEN ToInt(SubSeq(filename, m1[1], m1[2]))
        ELSE IF m2 # <<>> THEN ToInt(SubSeq(caption, m2[1], m2[2]))
        ELSE None

\* the first text that matches decides, also when its number is no common quality
QualityOrNone(q) == IF q \in common_qualities THEN q ELSE None

extract_video_quality(filename, caption) ==
    LET m1 == SearchQuality(filename)
        m2 == SearchQuality(caption)
    IN  IF m1 # <<>> THEN QualityOrNone(ToInt(SubSeq(filename, m1[1], m1[2])))
        ELSE IF m2 # <<>> THEN QualityOrNone(ToInt(SubSeq(caption, m2[1], m2[2])))
        ELSE None

\* VideoFile.__init__; sender is the requester whose update carried the file
VideoFile(filename, caption, file_type, sender) ==
    [filename       |-> filename,
     caption        |-> caption,
     file_type      |-> file_type,
     episode_number |-> extract_episode_number(filename, caption),
     video_quality  |-> extract_video_quality(filename, caption),
     sender         |-> sender]

(***************************************************************************)
(* Python's re, as far as the patterns of the program use it: a pattern is *)
(* a sequence of parts, Ends gives the ways a part matches at a position   *)
(* in the order in which the backtracking matcher tries them, and MatchAt  *)
(* the match it finds, the one re.search, re.sub and re.split take.  The patterns are compiled   *)
(* with re.IGNORECASE where the code says so (ic).                         *)
(***************************************************************************)
UpperCase == << "A", "B", "C", "D", "E", "F", "G", "H", "I", "J", "K", "L", "M",
                "N", "O", "P", "Q", "R", "S", "T", "U", "V", "W", "X", "Y", "Z" >>

LowerCase == << "a", "b", "c", "d", "e", "f", "g", "h", "i", "j", "k", "l", "m",
                "n", "o", "p", "q", "r", "s", "t", "u", "v", "w", "x", "y", "z" >>

\* str.lower on one character
Lower(c) ==
    IF \E k \in 1..26 : UpperCase[k] = c
    THEN LowerCase[CHOOSE k \in 1..26 : UpperCase[k] = c]
    ELSE c

\* str.lower
ToLower(t) == [i \in 1..Len(t) |-> Lower(t[i])]

Letters == {UpperCase[k] : k \in 1..26} \cup {LowerCase[k] : k \in 1..26}

\* \w, \s, \d and . on the characters of the texts
IsWord(c) == c \in Letters \cup Digits \cup {"_"}

IsSpace(c) == c \in {" ", "\n", "\t", "\r"}

InCategory(c, cat) ==
    CASE cat = "d" -> c \in Digits
      [] cat = "w" -> IsWord(c)
      [] cat = "s" -> IsSpace(c)
      [] cat = "." -> c # "\n"

\* the patterns: a pattern is a sequence of parts
Ch(c) == [op |-> "set", neg |-> FALSE, chars |-> {c}, cats |-> {}]
OneOf(cs) == [op |-> "set", neg |-> FALSE, chars |-> cs, cats |-> {}]
NoneOf(cs) == [op |-> "set", neg |-> TRUE, chars |-> cs, cats |-> {}]
Digit == [op |-> "set", neg |-> FALSE, chars |-> {}, cats |-> {"d"}]
Word == [op |-> "set", neg |-> FALSE, chars |-> {}, cats |-> {"w"}]
Space == [op |-> "set", neg |-> FALSE, chars |-> {}, cats |-> {"s"}]
AnyChar == [op |-> "set", neg |-> FALSE, chars |-> {}, cats |-> {"."}]
Txt(s) == [op |-> "txt", s |-> s]
Many(r) == [op |-> "many", r |-> r, min |-> 0, lazy |-> FALSE]
Some(r) == [op |-> "many", r |-> r, min |-> 1, lazy |-> FALSE]
FewMany(r) == [op |-> "many", r |-> r, min |-> 0, lazy |-> TRUE]
FewSome(r) == [op |-> "many", r |-> r, min |-> 1, lazy |-> TRUE]
Or(alternatives) == [op |-> "or", rs |-> alternatives]
Maybe(r) == Or(<< <<r>>, <<>> >>)
Grp(n, r) == [op |-> "group", n |-> n, r |-> r]
AtStart == [op |-> "at", where |-> "start"]
AtEnd == [op |-> "at", where |-> "end"]
WordEdge == [op |-> "at", where |-> "edge"]

MaxGroups == 3

NoGroup == <<0, 0>>

NoCaps == [n \in 1..MaxGroups |-> NoGroup]

SetMatches(r, c, ic) ==
    LET in == \/ \E x \in r.chars : x = c \/ (ic /\ Lower(x) = Lower(c))
              \/ \E cat \in r.cats : InCategory(c, cat)
    IN  in # r.neg

TxtMatches(s, t, i, ic) ==
    /\ i + Len(s) - 1 <= Len(t)
    /\ \A k \in 1..Len(s) :
          t[i + k - 1] = s[k] \/ (ic /\ Lower(t[i + k - 1]) = Lower(s[k]))

AtMatches(r, t, i) ==
    CASE r.where = "start" -> i = 1
      [] r.where = "end" -> i = Len(t) + 1 \/ (i = Len(t) /\ t[i] = "\n")
      [] r.where = "edge" ->
            (i > 1 /\ IsWord(t[i - 1])) # (i <= Len(t) /\ IsWord(t[i]))

\* the length of the longest run of characters of the set r from position i
Run(r, t, i, ic) ==
    LET runs == {n \in 0..(Len(t) - i + 1) :
                    \A k \in i..(i + n - 1) : SetMatches(r, t[k], ic)}
    IN  CHOOSE n \in runs : \A m \in runs : m <= n

\* Body(x), with x evaluated once
With(x, Body(_)) == CHOOSE r \in {Body(v) : v \in {x}} : TRUE

RECURSIVE PartEnds(_, _, _, _)
RECURSIVE SeqEnds(_, _, _, _)
\* the positions after the matches of the parts rs one after the other from
\* position i, in the order in which the backtracking matcher tries them
SeqEnds(rs, t, i, ic) ==
    IF rs = <<>> THEN <<i>>
    ELSE With(PartEnds(rs[1], t, i, ic),
              LAMBDA first :
                  LET all[k \in 0..Len(first)] ==
                          IF k = 0 THEN <<>>
                          ELSE all[k - 1] \o SeqEnds(Tail(rs), t, first[k], ic)
                  IN  all[Len(first)])

\* the same for one part: a repetition tries the longest run first, a lazy
\* one the shortest
PartEnds(r, t, i, ic) ==
    CASE r.op = "set" -> IF i <= Len(t) /\ SetMatches(r, t[i], ic) THEN <<i + 1>> ELSE <<>>
      [] r.op = "txt" -> IF TxtMatches(r.s, t, i, ic) THEN <<i + Len(r.s)>> ELSE <<>>
      [] r.op = "at" -> IF AtMatches(r, t, i) THEN <<i>> ELSE <<>>
      [] r.op = "many" ->
            With(Run(r.r, t, i, ic),
                 LAMBDA n :
                     IF n < r.min THEN <<>>
                     ELSE [k \in 1..(n - r.min + 1) |->
                              IF r.lazy THEN i + r.min + k - 1 ELSE i + n - k + 1])
      [] r.op = "group" -> PartEnds(r.r, t, i, ic)
      [] r.op = "or" ->
            LET all[k \in 0..Len(r.rs)] ==
                    IF k = 0 THEN <<>> ELSE all[k - 1] \o SeqEnds(r.rs[k], t, i, ic)
            IN  all[Len(r.rs)]

Fail == [e |-> 0, g |-> NoCaps]

\* rest[k] is the match of the rest of a pattern after the k-th way first[k]
\* to match its first part: the match with the first k that has one
FirstGood(part, i, first, rest) ==
    LET good == {k \in 1..Len(first) : rest[k] # Fail}
        k == CHOOSE x \in good : \A y \in good : x <= y
    IN  IF good = {} THEN Fail
        ELSE IF part.op = "group" THEN [rest[k] EXCEPT !.g[part.n] = <<i, first[k]>>]
             ELSE rest[k]

RECURSIVE MatchAt(_, _, _, _)
\* the match of the pattern rs at position i that the matcher finds: e is the
\* position after the match and g the groups, which are parts of rs itself
MatchAt(rs, t, i, ic) ==
    IF rs = <<>> THEN [e |-> i, g |-> NoCaps]
    ELSE With(PartEnds(rs[1], t, i, ic),
              LAMBDA first :
                  With(SubSeq([k \in 1..Len(first) |->
                                  MatchAt(Tail(rs), t, first[k], ic)], 1, Len(first)),
                       LAMBDA rest : FirstGood(rs[1], i, first, rest)))

NoMatch == [s |-> 0, e |-> 0, g |-> NoCaps]

\* re.search from position from on: the match at the leftmost position
FirstAt(at, from) ==
    LET starts == {i \in from..Len(at) : at[i] # Fail}
        s == CHOOSE i \in starts : \A j \in starts : i <= j
    IN  IF starts = {} THEN NoMatch ELSE [s |-> s, e |-> at[s].e, g |-> at[s].g]

SearchFrom(r, t, from, ic) ==
    With(SubSeq([i \in 1..(Len(t) + 1) |-> IF i < from THEN Fail ELSE MatchAt(r, t, i, ic)],
                1, Len(t) + 1),
         LAMBDA at : FirstAt(at, from))

Search(r, t, ic) == SearchFrom(r, t, 1, ic)

\* match.group(n)
Group(t, m, n) == SubSeq(t, m.g[n][1], m.g[n][2] - 1)

RECURSIVE SubFrom(_, _, _, _, _)
\* re.sub(r, repl, t) for a pattern that matches no empty text
SubFrom(r, repl, t, from, ic) ==
    With(SearchFrom(r, t, from, ic),
         LAMBDA m :
             IF m = NoMatch \/ m.e = m.s THEN SubSeq(t, from, Len(t))
             ELSE SubSeq(t, from, m.s - 1) \o repl \o SubFrom(r, repl, t, m.e, ic))

Sub(r, repl, t, ic) == SubFrom(r, repl, t, 1, ic)

\* re.split(r, t)[0]
SplitHead(r, t, ic) ==
    With(Search(r, t, ic), LAMBDA m : IF m = NoMatch THEN t ELSE SubSeq(t, 1, m.s - 1))

RECURSIVE Strip(_)
\* str.strip
Strip(t) ==
    IF t = <<>> THEN t
    ELSE IF IsSpace(t[1]) THEN Strip(Tail(t))
    ELSE IF IsSpace(t[Len(t)]) THEN Strip(SubSeq(t, 1, Len(t) - 1))
    ELSE t

\* needle in t
Contains(t, needle) ==
    \E i \in 1..(Len(t) - Len(needle) + 1) : SubSeq(t, i, i + Len(needle) - 1) = needle

\* str.startswith
StartsWith(t, head) == Len(t) >= Len(head) /\ SubSeq(t, 1, Len(head)) = head

\* str.endswith
EndsWith(t, tail) == Len(t) >= Len(tail) /\ SubSeq(t, Len(t) - Len(tail) + 1, Len(t)) = tail

\* a padding that keeps two digits, as "%02d" % (n % 100) would
Fill2(s) == SubSeq(<<"0", "0">> \o s, Len(s) + 1, Len(s) + 2)

\* str.zfill(2) on a run of digits
Zfill2(s) == IF Len(s) < 2 THEN [k \in 1..(2 - Len(s)) |-> "0"] \o s ELSE s

(***************************************************************************)
(* AnimeParser.  A text is a sequence of characters; a character outside   *)
(* printable ASCII is written by its code point, and the literals of the   *)
(* source are copied character by character.                               *)
(***************************************************************************)
\* the sign and the labels of the structured format, as the source spells them
TvSign == <<"U+F8FF", "U+00FC", "U+00EC", "U+222B">>

EpisodeLabel == <<"E", "U+00B7", "U+00A5", "U+00F2", "U+2026", "U+2122",
                "U+00CD", "U+00FA", "U+00B1", "U+00B7", "U+00A5", "U+00E8",
                "U+00B7", "U+00A5", "U+00D6", "U+00B7", "U+00A5", "U+00E1">>

QualityLabel == <<"Q", "U+00B7", "U+00A5", "U+00FA", "U+00B7", "U+00A5",
                "U+00C4", "U+00A0", "U+00FC", "U+2026", "U+2122", "U+00B7",
                "U+00A5", "U+00F5", "U+00A0", "U+00E8">>

AudioLabel == <<"A", "U+00B7", "U+00A5", "U+00FA", "U+00B7", "U+00A5",
              "U+00D6", "U+2026", "U+2122", "U+00B7", "U+00A5", "U+00E8">>

\* self.patterns
bracket_se ==
    <<Ch("["), Ch("S"), Grp(1, Some(Digit)), Many(Space), Ch("E"),
          Grp(2, Some(Digit)), Ch("]")>>

bracket_sep ==
    <<Ch("["), Ch("S"), Grp(1, Some(Digit)), Many(Space), Ch("E"), Ch("P"),
          Grp(2, Some(Digit)), Ch("]")>>

channel_se ==
    <<Ch("@"), Some(Word), Many(Space), Ch("-"), Many(Space),
          Grp(1, FewSome(AnyChar)), Some(Space), Ch("S"), Grp(2, Some(Digit)),
          Many(Space), Ch("E"), Ch("P"), Grp(3, Some(Digit))>>

channel_bracket ==
    <<Ch("@"), Some(Word), Many(Space), Ch("-"), Many(Space), Ch("["), Ch("S"),
          Grp(1, Some(Digit)), Many(Space), Ch("E"), Ch("P"), Grp(2, Some(Digit)),
          Ch("]"), Many(Space), Grp(3, FewSome(AnyChar)),
          Or(<< <<Many(Space), Ch("[")>>, <<AtEnd>> >>)>>

structured_emoji ==
    <<Txt(TvSign), Many(Space), Grp(1, Some(NoneOf({"["}))), Many(Space),
          Ch("["), Ch("S"), Grp(2, Some(Digit)), Ch("]")>>

simple_se ==
    <<Ch("S"), Grp(1, Some(Digit)), Many(Space), Ch("E"), Grp(2, Some(Digit))>>

simple_ep ==
    <<Ch("S"), Grp(1, Some(Digit)), Many(Space), Ch("E"), Ch("P"),
          Grp(2, Some(Digit))>>

EpisodeInfo(season, episode, anime_name) ==
    [season |-> season, episode |-> episode, anime_name |-> anime_name]

\* r'Eᴘɪꜱᴏᴅᴇ\s*:\s*(\d+)'
episode_field ==
    <<Txt(EpisodeLabel), Many(Space), Ch(":"), Many(Space), Grp(1, Some(Digit))>>

\* the result of _parse_structured_format from its two matches
structured_info(text, title_match, episode_match) ==
    EpisodeInfo(
        IF title_match # NoMatch THEN Zfill2(Group(text, title_match, 2)) ELSE <<"0", "1">>,
        IF episode_match # NoMatch THEN Zfill2(Group(text, episode_match, 1))
        ELSE <<"0", "1">>,
        IF title_match # NoMatch THEN Strip(Group(text, title_match, 1)) ELSE <<>>)

_parse_structured_format(text) ==
    structured_info(text, Search(structured_emoji, text, TRUE),
                    Search(episode_field, text, TRUE))

\* r'\[S\d+' and r'S\d+', the patterns of the two re.split
bracket_season == <<Ch("["), Ch("S"), Some(Digit)>>

simple_season == <<Ch("S"), Some(Digit)>>

\* the least of a set of indexes, 0 if it is empty
First(hits) == IF hits = {} THEN 0 ELSE CHOOSE k \in hits : \A j \in hits : k <= j

\* the last pattern of ps that matches
LastMatching(ps, text) ==
    IF \A k \in 1..Len(ps) : Search(ps[k], text, TRUE) = NoMatch THEN 0
    ELSE CHOOSE k \in 1..Len(ps) :
            /\ Search(ps[k], text, TRUE) # NoMatch
            /\ \A j \in (k + 1)..Len(ps) : Search(ps[j], text, TRUE) = NoMatch

\* the first pattern of ps that matches: its index in ps, 0 if none does
FirstMatching(ps, text) ==
    First({k \in 1..Len(ps) : Search(ps[k], text, TRUE) # NoMatch})

\* self.patterns without structured_emoji, in the order of the dict
patterns == <<channel_se, channel_bracket, bracket_se, bracket_sep, simple_se, simple_ep>>

\* the result for the k-th pattern and its match
pattern_info(clean_text, k, match) ==
    CASE k = 1 ->
            EpisodeInfo(Zfill2(Group(clean_text, match, 2)),
                        Zfill2(Group(clean_text, match, 3)),
                        Strip(Group(clean_text, match, 1)))
      [] k = 2 ->
            EpisodeInfo(Zfill2(Group(clean_text, match, 1)),
                        Zfill2(Group(clean_text, match, 2)),
                        Strip(Group(clean_text, match, 3)))
      [] k \in {3, 4} ->
            EpisodeInfo(Zfill2(Group(clean_text, match, 1)),
                        Zfill2(Group(clean_text, match, 2)),
                        Strip(SplitHead(bracket_season, clean_text, TRUE)))
      [] k \in {5, 6} ->
            EpisodeInfo(Zfill2(Group(clean_text, match, 1)),
                        Zfill2(Group(clean_text, match, 2)),
                        Strip(SplitHead(simple_season, clean_text, TRUE)))

\* the loop over self.patterns once the first matching pattern k is known
first_pattern_info(clean_text, k) ==
    IF k = 0 THEN EpisodeInfo(<<"0", "1">>, <<"0", "1">>, clean_text)
    ELSE pattern_info(clean_text, k, Search(patterns[k], clean_text, TRUE))

\* extract_episode_info after clean_text = text.strip()
stripped_episode_info(clean_text) ==
    IF Contains(clean_text, TvSign) /\ Contains(clean_text, EpisodeLabel)
    THEN _parse_structured_format(clean_text)
    ELSE first_pattern_info(clean_text, FirstMatching(patterns, clean_text))

extract_episode_info(text) == With(Strip(text), stripped_episode_info)

\* quality_patterns
quality_patterns ==
    << <<Grp(1, Some(Digit)), OneOf({"p", "P"})>>,
       <<Ch("["), Grp(1, Some(Digit)), Maybe(OneOf({"p", "P"})), Ch("]")>>,
       <<Txt(QualityLabel), Many(Space), Ch(":"), Many(Space),
             Grp(1, Some(Digit)), Maybe(OneOf({"p", "P"}))>>,
       <<Txt(<<"Q", "U", "A", "L", "I", "T", "Y">>), Many(Space), Ch(":"),
             Many(Space), Grp(1, Some(Digit)), Maybe(OneOf({"p", "P"}))>>,
       <<Grp(1, Some(Digit)), Many(Space), OneOf({"p", "P"})>> >>

\* the number that the k-th quality pattern finds, whatever it is
any_quality(text, match) == IF match # NoMatch THEN Group(text, match, 1) ELSE <<>>

\* the number that the k-th quality pattern finds, <<>> if it finds none or
\* one that is no common quality
common_quality(text, match) ==
    IF match # NoMatch /\ ToInt(Group(text, match, 1)) \in common_qualities
    THEN Group(text, match, 1) ELSE <<>>

found_qualities(text) ==
    [k \in 1..Len(quality_patterns) |->
        With(Search(quality_patterns[k], text, TRUE),
             LAMBDA match : common_quality(text, match))]

first_quality(found, k) == IF k = 0 THEN <<"7", "2", "0", "P">> ELSE found[k] \o <<"P">>

\* the last pattern with a common quality instead of the first
last_found_quality(found) ==
    IF \A k \in 1..Len(found) : found[k] = <<>> THEN <<"7", "2", "0", "P">>
    ELSE found[CHOOSE k \in 1..Len(found) :
                  found[k] # <<>> /\ \A j \in (k + 1)..Len(found) : found[j] = <<>>]
         \o <<"P">>

first_found_quality(found) ==
    first_quality(found, First({k \in 1..Len(found) : found[k] # <<>>}))

extract_quality(text) == With(found_qualities(text), first_found_quality)

\* language_mappings, in the order of the dict
language_mappings ==
    << <<<<"U+2021", "U+00C6", "U+00A7", "U+2021", "U+00C6", "U+00C6",
           "U+2021", "U+00C6", "U+00F8", "U+2021", "U+00C6", "U+00A5",
           "U+2021", "U+00D8", "U+00E7">>,
         <<"T", "a", "m">>>>,
       <<<<"t", "a", "m", "i", "l">>, <<"T", "a", "m">>>>,
       <<<<"t", "a", "m">>, <<"T", "a", "m">>>>,
       <<<<"e", "n", "g", "l", "i", "s", "h">>, <<"E", "n", "g">>>>,
       <<<<"e", "n", "g">>, <<"E", "n", "g">>>>,
       <<<<"m", "u", "l", "t", "i", " ", "a", "u", "d", "i", "o">>,
         <<"M", "u", "l", "t", "i">>>>,
       <<<<"m", "u", "l", "t", "i">>, <<"M", "u", "l", "t", "i">>>>,
       <<<<"d", "u", "a", "l", " ", "a", "u", "d", "i", "o">>, <<"D", "u", "a", "l">>>>,
       <<<<"d", "u", "a", "l">>, <<"D", "u", "a", "l">>>> >>

language_of(k) == IF k = 0 THEN <<>> ELSE language_mappings[k][2]

\* the value of the first key that is in t, <<>> if none is
FirstLanguage(t) ==
    language_of(First({k \in 1..Len(language_mappings) : Contains(t, language_mappings[k][1])}))

audio_field ==
    <<Or(<< <<Txt(AudioLabel)>>, <<Txt(<<"A", "u", "d", "i", "o">>)>> >>), Many(Space),
          Ch(":"), Many(Space), Grp(1, Some(NoneOf({",", "\n", "]"})))>>

\* the language of the audio field if it names one, else of the whole text
audio_language(text, audio_match) ==
    IF audio_match = NoMatch THEN <<>>
    ELSE FirstLanguage(Strip(ToLower(Group(text, audio_match, 1))))

\* the language of the whole text, whatever the audio field names
whole_text_language(language, text) == FirstLanguage(ToLower(text))

language_or(language, text) ==
    IF language # <<>> THEN language ELSE FirstLanguage(ToLower(text))

extract_language(text) ==
    language_or(audio_language(text, Search(audio_field, text, TRUE)), text)

\* unwanted_patterns, after the channel mention
unwanted_patterns ==
    << <<Ch("["), FewMany(AnyChar), Ch("]")>>,
       <<Ch("("), FewMany(AnyChar), Ch(")")>>,
       <<AtStart, Many(Space), Ch("-"), Many(Space)>>,
       <<Many(Space), Ch("-"), Many(Space), AtEnd>> >>

channel_mention ==
    <<AtStart, Ch("@"), Some(Word), Many(Space), Ch("-"), Many(Space)>>

\* replacements, in the order of the dict
replacements ==
    << <<<<"T", "a", "m", "i", "l">>, <<"T", "a", "m">>>>,
       <<<<"E", "n", "g", "l", "i", "s", "h">>, <<"E", "n", "g">>>>,
       <<<<"D", "u", "b", "b", "e", "d">>, <<"D", "u", "b">>>>,
       <<<<"S", "u", "b", "b", "e", "d">>, <<"S", "u", "b">>>> >>

punctuation ==
    OneOf({"!", "@", "#", "$", "%", "^", "&", "*", "(", ")", ",", ".", "?", "\"",
           ":", "{", "}", "|", "<", ">"})

RECURSIVE SubAll(_, _, _)
\* re.sub with '' for the first n of unwanted_patterns, one after the other
SubAll(ps, n, name) ==
    IF n = 0 THEN name ELSE Sub(ps[n], <<>>, SubAll(ps, n - 1, name), TRUE)

RECURSIVE ReplaceAll(_, _)
\* re.sub(rf'\b{old}\b', new, name) for the first n of replacements
ReplaceAll(n, name) ==
    IF n = 0 THEN name
    ELSE Sub(<<WordEdge, Txt(replacements[n][1]), WordEdge>>, replacements[n][2],
             ReplaceAll(n - 1, name), TRUE)

clean_anime_name(name) ==
    IF name = <<>> THEN <<>>
    ELSE Strip(Sub(<<Some(Space)>>, <<" ">>,
                   Sub(<<punctuation>>, <<>>,
                       ReplaceAll(Len(replacements),
                                  SubAll(unwanted_patterns, Len(unwanted_patterns),
                                         Sub(channel_mention, <<>>, name, TRUE))),
                       FALSE),
                   FALSE))

(***************************************************************************)
(* parse_bulk_message.                                                     *)
(***************************************************************************)
\* the sign that begins the heading line of a listing, as the source spells it
BoxSign == <<"U+F8FF", "U+00FC", "U+00EC", "U+00B6">>

NonSpace == [op |-> "set", neg |-> TRUE, chars |-> {}, cats |-> {"s"}]

\* r'(\d+)\.\s*(.+?)\s*-\s*(https?://[^\s]+)'
bulk_line ==
    <<Grp(1, Some(Digit)), Ch("."), Many(Space), Grp(2, FewSome(AnyChar)), Many(Space),
      Ch("-"), Many(Space),
      Grp(3, Or(<< <<Txt(<<"h", "t", "t", "p">>), Maybe(Ch("s")), Txt(<<":", "/", "/">>),
                    Some(NonSpace)>> >>))>>

\* r'\[([^\]]+)\]'
bracket_span == <<Ch("["), Grp(1, Some(NoneOf({"]"}))), Ch("]")>>

\* r'S\d+[-E]\d+|S\d+E\d+|EP?\d+'
episode_shape ==
    <<Or(<< <<Ch("S"), Some(Digit), OneOf({"-", "E"}), Some(Digit)>>,
            <<Ch("S"), Some(Digit), Ch("E"), Some(Digit)>>,
            <<Ch("E"), Maybe(Ch("P")), Some(Digit)>> >>)>>

\* r'^\d{3,4}p?$'
quality_shape == <<AtStart, Digit, Digit, Digit, Maybe(Digit), Maybe(Ch("p")), AtEnd>>

\* ['single', 'batch', 'dual', 'multi']
file_types ==
    {<<"s", "i", "n", "g", "l", "e">>, <<"b", "a", "t", "c", "h">>,
     <<"d", "u", "a", "l">>, <<"m", "u", "l", "t", "i">>}

\* str.upper on one character
Upper(c) ==
    IF \E k \in 1..26 : LowerCase[k] = c
    THEN UpperCase[CHOOSE k \in 1..26 : LowerCase[k] = c]
    ELSE c

\* str.capitalize
Capitalize(t) ==
    IF t = <<>> THEN t ELSE <<Upper(t[1])>> \o ToLower(Tail(t))

RECURSIVE SplitLines(_)
\* str.split('\n')
SplitLines(t) ==
    IF \A i \in 1..Len(t) : t[i] # "\n" THEN <<t>>
    ELSE With(CHOOSE i \in 1..Len(t) : t[i] = "\n" /\ \A j \in 1..(i - 1) : t[j] # "\n",
              LAMBDA i : <<SubSeq(t, 1, i - 1)>> \o SplitLines(SubSeq(t, i + 1, Len(t))))

RECURSIVE FindAllFrom(_, _, _)
\* re.findall(r, t) for a pattern with one group that matches no empty text
FindAllFrom(r, t, from) ==
    With(SearchFrom(r, t, from, FALSE),
         LAMBDA m : IF m = NoMatch THEN <<>>
                    ELSE <<Group(t, m, 1)>> \o FindAllFrom(r, t, m.e))

\* the fields that the brackets of a line set: the defaults, and after a
\* bracket the fields before it with the one the bracket sets
Fields(episode, quality, file_type) ==
    [episode |-> episode, quality |-> quality, file_type |-> file_type]

classified(fields, bracket) ==
    IF MatchAt(episode_shape, bracket, 1, TRUE) # Fail
    THEN [fields EXCEPT !.episode = bracket]
    ELSE IF MatchAt(quality_shape, bracket, 1, FALSE) # Fail
    THEN [fields EXCEPT !.quality = IF EndsWith(bracket, <<"p">>) THEN bracket
                                    ELSE bracket \o <<"p">>]
    ELSE IF ToLower(bracket) \in file_types
    THEN [fields EXCEPT !.file_type = Capitalize(bracket)]
    ELSE fields

RECURSIVE classify(_, _)
\* for bracket in brackets
classify(fields, brackets) ==
    IF brackets = <<>> THEN fields
    ELSE classify(classified(fields, Head(brackets)), Tail(brackets))

\* re.sub(r'\.(mkv|mp4|avi)$', '', anime_name, re.IGNORECASE): the fourth
\* argument is the count, so the pattern is matched as it is written
without_extension(name) ==
    IF \/ EndsWith(name, <<".", "m", "k", "v">>)
       \/ EndsWith(name, <<".", "m", "p", "4">>)
       \/ EndsWith(name, <<".", "a", "v", "i">>)
    THEN SubSeq(name, 1, Len(name) - 4)
    ELSE name

\* the three re.sub and the strips that make the name from the content
bulk_anime_name(content_part) ==
    Strip(Sub(<<Some(Space)>>, <<" ">>,
              without_extension(Strip(Sub(bracket_span, <<>>, content_part, FALSE))),
              FALSE))

name_or_unknown(anime_name, entry_num) ==
    IF anime_name # <<>> THEN anime_name
    ELSE <<"U", "n", "k", "n", "o", "w", "n", " ", "A", "n", "i", "m", "e", " ">> \o entry_num

\* the entry of a line that has matched, from its three groups
bulk_entry(entry_num, content_part, url, fields) ==
    [anime_name |-> name_or_unknown(bulk_anime_name(content_part), entry_num),
     episode |-> fields.episode,
     quality |-> fields.quality,
     file_name |-> content_part,
     file_type |-> fields.file_type,
     url |-> url]

matched_entry(line, match) ==
    With(Strip(Group(line, match, 2)),
         LAMBDA content_part :
             bulk_entry(Group(line, match, 1), content_part, Group(line, match, 3),
                        classify(Fields(<<"E", "P">> \o Group(line, match, 1),
                                        <<"7", "2", "0", "p">>,
                                        <<"S", "i", "n", "g", "l", "e">>),
                                 FindAllFrom(bracket_span, content_part, 1))))

\* the entries of one stripped line: none or one
line_entries(line) ==
    IF line = <<>> \/ StartsWith(line, BoxSign) THEN <<>>
    ELSE With(MatchAt(bulk_line, line, 1, FALSE),
              LAMBDA match : IF match = Fail THEN <<>> ELSE <<matched_entry(line, match)>>)

RECURSIVE lines_entries(_)
\* for line in lines
lines_entries(lines) ==
    IF lines = <<>> THEN <<>>
    ELSE line_entries(Strip(Head(lines))) \o lines_entries(Tail(lines))

parse_bulk_message(text) == lines_entries(SplitLines(Strip(text)))

\* the lines "<n>. [<tag>] <title> [<q>p] - <url>" of the listings
BulkLine(n, tag, title, q, url) ==
    n \o <<".", " ", "[">> \o tag \o <<"]", " ">> \o title \o <<" ", "[">> \o q
      \o <<"p", "]", " ", "-", " ">> \o url

EpisodeTags ==
    {<<"S", "0", "1", "-", "E", "0", "1">>, <<"S", "0", "1", "E", "0", "1">>,
     <<"E", "P", "3">>}

BulkQualities == {<<"7", "2", "0">>, <<"1", "0", "8", "0">>}

MyShow == <<"M", "y", " ", "S", "h", "o", "w">>

FileUrl == <<"h", "t", "t", "p", "s", ":", "/", "/", "x", "/", "a", ".", "m", "k", "v">>

ShapedLines == {BulkLine(<<"1">>, tag, MyShow, q, FileUrl) : tag \in EpisodeTags, q \in BulkQualities}

\* a listing with a heading line, a blank line, a line with no url and a line
\* with no number between two lines that match
Listing ==
    BoxSign \o <<" ", "l", "i", "s", "t", "\n", "1", ".", " ", "[", "S", "0", "1",
          "E", "0", "1", "]", " ", "A", " ", "[", "4", "8", "0", "p", "]",
          " ", "-", " ", "h", "t", "t", "p", "s", ":", "/", "/", "x", "/",
          "1", "\n", "\n", "3", ".", " ", "n", "o", " ", "u", "r", "l", " ",
          "h", "e", "r", "e", "\n", "n", "o", " ", "n", "u", "m", "b", "e",
          "r", " ", "-", " ", "h", "t", "t", "p", "s", ":", "/", "/", "z",
          "\n", "2", ".", " ", "[", "S", "0", "1", "E", "0", "2", "]", " ",
          "A", " ", "[", "4", "8", "0", "p", "]", " ", "-", " ", "h", "t",
          "t", "p", "s", ":", "/", "/", "x", "/", "2">>

\* the other texts of the bulk updates
OtherListings ==
    { \* 4. x - https://a b c
      <<"4", ".", " ", "x", " ", "-", " ", "h", "t", "t", "p", "s", ":", "/",
        "/", "a", " ", "b", " ", "c">>,
      \* 1.a-http://x
      <<"1", ".", "a", "-", "h", "t", "t", "p", ":", "/", "/", "x">>,
      \* 3. [E5][12345][multi]  - https://e
      <<"3", ".", " ", "[", "E", "5", "]", "[", "1", "2", "3", "4", "5", "]",
        "[", "m", "u", "l", "t", "i", "]", " ", " ", "-", " ", "h", "t", "t",
        "p", "s", ":", "/", "/", "e">>,
      \* 1. a - ftp://x / 2. b - https://y
      <<"1", ".", " ", "a", " ", "-", " ", "f", "t", "p", ":", "/", "/", "x",
        "\n", "2", ".", " ", "b", " ", "-", " ", "h", "t", "t", "p", "s",
        ":", "/", "/", "y">>,
      \* 5. A - B - https://x - https://y
      <<"5", ".", " ", "A", " ", "-", " ", "B", " ", "-", " ", "h", "t", "t",
        "p", "s", ":", "/", "/", "x", " ", "-", " ", "h", "t", "t", "p", "s",
        ":", "/", "/", "y">>,
      \* 2. b - https://y / 1. a - https://x
      <<"2", ".", " ", "b", " ", "-", " ", "h", "t", "t", "p", "s", ":", "/",
        "/", "y", "\n", "1", ".", " ", "a", " ", "-", " ", "h", "t", "t",
        "p", "s", ":", "/", "/", "x">>,
      \* 2. [EP3] [x] My  Show.mkv [1080] [Batch] - http://y
      <<"2", ".", " ", "[", "E", "P", "3", "]", " ", "[", "x", "]", " ", "M",
        "y", " ", " ", "S", "h", "o", "w", ".", "m", "k", "v", " ", "[", "1",
        "0", "8", "0", "]", " ", "[", "B", "a", "t", "c", "h", "]", " ", "-",
        " ", "h", "t", "t", "p", ":", "/", "/", "y">> }

BulkTexts == ShapedLines \cup {Listing} \cup OtherListings

\* parse_bulk_message is applied to each text of the updates once
BulkParsed == [text \in BulkTexts |-> parse_bulk_message(text)]

(***************************************************************************)
(* The media updates a requester can send: a filename, a caption (the      *)
(* handler is registered for captioned media only) and the kind of media.  *)
(***************************************************************************)
Tag(s, e) == <<"[", "S">> \o s \o <<"-", "E">> \o e \o <<"]">>

Ep2At480 ==
    [filename |-> Tag(<<"1">>, <<"2">>) \o <<"a", "[", "4", "8", "0", "P", "]">>,
     caption |-> <<"c">>, file_type |-> "document"]

Ep1At480 ==
    [filename |-> Tag(<<"1">>, <<"1">>) \o <<"a", "[", "4", "8", "0", "P", "]">>,
     caption |-> <<"c">>, file_type |-> "document"]

\* the same episode and quality once more, a video, the quality without P
Ep1At480Video ==
    [filename |-> Tag(<<"1">>, <<"1">>) \o <<"b", "[", "4", "8", "0", "]">>,
     caption |-> <<"c">>, file_type |-> "video"]

\* the tags are in the caption, not in the filename
Ep1At720InCaption ==
    [filename |-> <<"x">>,
     caption |-> Tag(<<"1">>, <<"1">>) \o <<"[", "7", "2", "0", "P", "]">>,
     file_type |-> "document"]

\* the last bracket that holds a number is the quality
Ep3At1080 ==
    [filename |-> Tag(<<"0", "1">>, <<"0", "3">>)
                  \o <<"[", "7", "]", "[", "1", "0", "8", "0", "P", "]", "[", "z", "]">>,
     caption |-> <<"c">>, file_type |-> "document"]

\* a common quality outside the three fixed buckets
Ep1At360 ==
    [filename |-> Tag(<<"1">>, <<"1">>) \o <<"[", "3", "6", "0", "P", "]">>,
     caption |-> <<"c">>, file_type |-> "document"]

\* an episode number, and a quality that is no common quality
Ep4At999 ==
    [filename |-> Tag(<<"1">>, <<"4">>) \o <<"[", "9", "9", "9", "P", "]">>,
     caption |-> Tag(<<"1">>, <<"4">>) \o <<"[", "4", "8", "0", "P", "]">>,
     file_type |-> "document"]

\* an episode number, and a quality written with a lowercase p
Ep5At720LowerP ==
    [filename |-> Tag(<<"1">>, <<"5">>) \o <<"[", "7", "2", "0", "p", "]">>,
     caption |-> <<"c">>, file_type |-> "document"]

\* neither an episode number nor a quality
NoTags == [filename |-> <<"x">>, caption |-> <<"c">>, file_type |-> "document"]

\* a captioned photo: neither a document nor a video
Photo ==
    [filename |-> <<>>,
     caption |-> Tag(<<"1">>, <<"1">>) \o <<"[", "4", "8", "0", "P", "]">>,
     file_type |-> "photo"]

MediaInputs ==
    {Ep2At480, Ep1At480, Ep1At480Video, Ep1At720InCaption, Ep3At1080, Ep1At360,
     Ep4At999, Ep5At720LowerP, NoTags, Photo}

\* the inputs of the runs with two requesters and overlapping handlers
SessionInputs == {Ep2At480, NoTags, Photo}

\* episode 0, and a common quality outside the three fixed buckets
Ep0At360 ==
    [filename |-> Tag(<<"1">>, <<"0">>) \o <<"[", "3", "6", "0", "P", "]">>,
     caption |-> <<"c">>, file_type |-> "document"]

\* the inputs of the runs that look at the summary
SummaryInputs == {Ep2At480, Ep1At480, Ep0At360, Ep1At360, NoTags}

(***************************************************************************)
(* The state.                                                              *)
(***************************************************************************)
VARIABLES
    message_count,      \* UnifiedAnimeBot.message_count
    prefixes,           \* UnifiedAnimeBot.prefixes
    fixed_anime_name,   \* UnifiedAnimeBot.fixed_anime_name
    user_sessions,      \* UnifiedAnimeBot.user_sessions: requester -> list object, 0: no key
    lists,              \* the list objects of user_sessions, by identity
    tasks,              \* the suspended /endsequence handlers and their local variables
    ingested,           \* the files ingested so far (bounds the run)
    db,                 \* the table user_settings: requester -> row
    handlers,           \* the suspended formatting and settings handlers
    db_errors,          \* the database calls that have raised (bounds the run)
    calls,              \* the calls of parse_caption so far
    last_call           \* the last call of parse_caption: what it was given and returned

vars ==
    <<message_count, prefixes, fixed_anime_name, user_sessions, lists, tasks, ingested,
      db, handlers, db_errors, calls, last_call>>

\* the formatter's side of the bot
bot == <<message_count, prefixes, fixed_anime_name, db, handlers, db_errors, calls, last_call>>

\* the sequencer's side of the bot
sequencer == <<user_sessions, lists, tasks, ingested>>

NoSession == 0

ListIds == 1..MaxLists

TaskIds == 1..MaxTasks

NoGroups == [q480 |-> <<>>, q720 |-> <<>>, q1080 |-> <<>>, other |-> <<>>]

IdleTask ==
    [pc |-> "idle", user |-> "u1", files |-> 0, file_count |-> 0, seen |-> 0,
     valid_files |-> <<>>, quality_groups |-> NoGroups, sent |-> <<>>, result |-> ""]

initial_prefixes ==
    << <<"/", "l", "e", "e", "c", "h", " ", "-", "n">>,
       <<"/", "l", "e", "e", "c", "h", "1", " ", "-", "n">>,
       <<"/", "l", "e", "e", "c", "h", "2", " ", "-", "n">>,
       <<"/", "l", "e", "e", "c", "h", "x", " ", "-", "n">>,
       <<"/", "l", "e", "e", "c", "h", "3", " ", "-", "n">>,
       <<"/", "l", "e", "e", "c", "h", "5", " ", "-", "n">> >>

\* a row of user_settings, as far as the formatter reads it
NoRow == [saved |-> FALSE, fixed_anime_name |-> <<>>, prefixes |-> <<>>]

Row(name, ps) == [saved |-> TRUE, fixed_anime_name |-> name, prefixes |-> ps]

HandlerIds == 1..MaxHandlers

IdleHandler ==
    [pc |-> "idle", user |-> "u1", kind |-> "", text |-> <<>>, index |-> 0, row |-> NoRow,
     entries |-> <<>>]

NoCall ==
    [user |-> "u1", caption |-> <<>>, message_count |-> 0, prefixes |-> <<>>,
     formatted_caption |-> <<>>]

\* UnifiedAnimeBot.__init__
Init ==
    /\ message_count = 0
    /\ prefixes = initial_prefixes
    /\ fixed_anime_name = <<>>
    /\ user_sessions = [u \in Users |-> NoSession]
    /\ lists = [l \in ListIds |-> <<>>]
    /\ tasks = [t \in TaskIds |-> IdleTask]
    /\ ingested = 0
    /\ db = [u \in Users |-> NoRow]
    /\ handlers = [h \in HandlerIds |-> IdleHandler]
    /\ db_errors = 0
    /\ calls = 0
    /\ last_call = NoCall

\* the list objects that a session or a suspended handler refers to
Referenced(sessions, ts) ==
    {sessions[u] : u \in Users} \cup {ts[t].files : t \in TaskIds}

\* an object without a reference is freed
Collect(ls, sessions, ts) ==
    [l \in ListIds |-> IF l \in Referenced(sessions, ts) THEN ls[l] ELSE <<>>]

FreeLists == ListIds \ Referenced(user_sessions, tasks)

\* a new update takes the lowest free handler slot
FreeTask(t) == tasks[t].pc = "idle" /\ \A x \in 1..(t - 1) : tasks[x].pc # "idle"

(***************************************************************************)
(* /sequence: sequence_command                                             *)
(***************************************************************************)
\* self.user_sessions[user_id] = []: a new list object under the requester's key
NewSession(sessions, u, id) == [sessions EXCEPT ![u] = id]

sequence_command(u) ==
    /\ FreeLists # {}
    /\ LET id == CHOOSE l \in FreeLists : \A x \in FreeLists : l <= x
       IN  /\ user_sessions' = NewSession(user_sessions, u, id)
           /\ lists' = Collect(lists, user_sessions', tasks)
    /\ UNCHANGED <<bot, tasks, ingested>>

(***************************************************************************)
(* A captioned media update of a requester in sequencing mode:             *)
(* handle_media_with_caption, then handle_sequence_file                    *)
(***************************************************************************)
\* self.user_sessions[user_id].append(video_file)
\* an insert at the head in the place of the append
PrependFile(ls, sessions, u, f) == [ls EXCEPT ![sessions[u]] = <<f>> \o @]

AppendFile(ls, sessions, u, f) == [ls EXCEPT ![sessions[u]] = Append(@, f)]

handle_sequence_file(u, m) ==
    /\ m.caption # <<>>
    /\ user_sessions[u] # NoSession
    /\ IF m.file_type \in {"document", "video"}
       THEN /\ lists' = AppendFile(lists, user_sessions, u,
                                   VideoFile(m.filename, m.caption, m.file_type, u))
            /\ ingested' = ingested + 1
       ELSE UNCHANGED <<lists, ingested>>
    /\ UNCHANGED <<bot, user_sessions, tasks>>

(***************************************************************************)
(* /endsequence: endsequence_command.  Its blocks, each run without        *)
(* suspension:                                                             *)
(*   begin      the "no files" check, files = the list object, file_count  *)
(*   partition  valid and invalid files, the quality groups, the sorts     *)
(*   send       one transport call of the delivery loops                   *)
(*   clear      del self.user_sessions[user_id], after the last reply      *)
(***************************************************************************)
\* the positions of a list object, the references the handler keeps to its files
Positions(l) == 1..Len(lists[l])

\* a check of the episode number alone
HasEpisode(f) == f.episode_number # None

\* valid_files = [f for f in files if f.episode_number is not None
\*                                    and f.video_quality is not None]
IsValidFile(f) == f.episode_number # None /\ f.video_quality # None

RECURSIVE FilterSeq(_, _)
\* [x for x in s if x in keep]
FilterSeq(s, keep) ==
    IF s = <<>> THEN <<>>
    ELSE IF s[1] \in keep THEN <<s[1]>> \o FilterSeq(Tail(s), keep)
         ELSE FilterSeq(Tail(s), keep)

AllIdx(fs) == [i \in 1..Len(fs) |-> i]

ValidFiles(fs) == FilterSeq(AllIdx(fs), {i \in 1..Len(fs) : IsValidFile(fs[i])})

InvalidFiles(fs) == FilterSeq(AllIdx(fs), {i \in 1..Len(fs) : ~IsValidFile(fs[i])})

\* quality_groups = {480: [], 720: [], 1080: []}: a file of another quality is
\* appended to other_files
GroupOf(fs, valid, q) ==
    FilterSeq(valid, {i \in 1..Len(fs) : fs[i].video_quality = q})

OtherFiles(fs, valid) ==
    FilterSeq(valid, {i \in 1..Len(fs) : fs[i].video_quality \notin {480, 720, 1080}})

\* the order of Python's tuples, on pairs of integers
KeyLess(a, b) == a[1] < b[1] \/ (a[1] = b[1] /\ a[2] < b[2])

RECURSIVE InsertUnstable(_, _, _)
\* a sort that is not stable: x goes in front of the elements of its own key
InsertUnstable(s, x, key) ==
    IF s = <<>> THEN <<x>>
    ELSE IF ~KeyLess(key[s[Len(s)]], key[x])
         THEN Append(InsertUnstable(SubSeq(s, 1, Len(s) - 1), x, key), s[Len(s)])
         ELSE Append(s, x)

RECURSIVE InsertSorted(_, _, _)
\* list.sort is stable: x, the later element, goes behind every element whose
\* key is not greater than its own
InsertSorted(s, x, key) ==
    IF s = <<>> THEN <<x>>
    ELSE IF KeyLess(key[x], key[s[Len(s)]])
         THEN Append(InsertSorted(SubSeq(s, 1, Len(s) - 1), x, key), s[Len(s)])
         ELSE Append(s, x)

RECURSIVE StableSort(_, _)
StableSort(s, key) ==
    IF s = <<>> THEN <<>>
    ELSE InsertSorted(StableSort(SubSeq(s, 1, Len(s) - 1), key), s[Len(s)], key)

\* quality_groups[quality].sort(key=lambda x: x.episode_number)
SortByEpisode(fs, s) ==
    StableSort(s, [i \in 1..Len(fs) |-> <<fs[i].episode_number, 0>>])

\* other_files.sort(key=lambda x: (x.episode_number, x.video_quality or 0))
QualityOrZero(f) == IF f.video_quality = None THEN 0 ELSE f.video_quality

SortOther(fs, s) ==
    StableSort(s, [i \in 1..Len(fs) |-> <<fs[i].episode_number, QualityOrZero(fs[i])>>])

QualityGroups(fs, valid) ==
    [q480  |-> SortByEpisode(fs, GroupOf(fs, valid, 480)),
     q720  |-> SortByEpisode(fs, GroupOf(fs, valid, 720)),
     q1080 |-> SortByEpisode(fs, GroupOf(fs, valid, 1080)),
     other |-> SortOther(fs, OtherFiles(fs, valid))]

\* for quality in [480, 720, 1080]: ...; then other_files
\* the loops with other_files in front
DeliveryOrderOtherFirst(g) == g.other \o g.q480 \o g.q720 \o g.q1080

DeliveryOrder(g) == g.q480 \o g.q720 \o g.q1080 \o g.other

\* del self.user_sessions[user_id]
\* a del that would drop the whole mapping
DelAllSessions(sessions, u) == [v \in Users |-> NoSession]

DelSession(sessions, u) == [sessions EXCEPT ![u] = NoSession]

\* a handler that has returned or raised: what was reported to its requester
Done(u, result) == [IdleTask EXCEPT !.pc = "done", !.user = u, !.result = result]

\* a handler without the check of src line 742: it goes on to the filter
endsequence_begin_unchecked(u, t) ==
    /\ FreeTask(t)
    /\ IF user_sessions[u] = NoSession \/ lists[user_sessions[u]] = <<>>
       THEN tasks' = [tasks EXCEPT ![t] =
                        [IdleTask EXCEPT !.pc = "clear", !.user = u, !.result = "no_valid"]]
       ELSE tasks' = [tasks EXCEPT ![t] =
                        [IdleTask EXCEPT !.pc = "partition", !.user = u,
                                         !.files = user_sessions[u],
                                         !.file_count = Len(lists[user_sessions[u]])]]
    /\ UNCHANGED <<bot, user_sessions, lists, ingested>>

endsequence_begin(u, t) ==
    /\ FreeTask(t)
    /\ IF user_sessions[u] = NoSession \/ lists[user_sessions[u]] = <<>>
       THEN tasks' = [tasks EXCEPT ![t] = Done(u, "no_files")]
       ELSE tasks' = [tasks EXCEPT ![t] =
                        [IdleTask EXCEPT !.pc = "partition", !.user = u,
                                         !.files = user_sessions[u],
                                         !.file_count = Len(lists[user_sessions[u]])]]
    /\ UNCHANGED <<bot, user_sessions, lists, ingested>>

endsequence_partition(t) ==
    /\ tasks[t].pc = "partition"
    /\ LET fs == lists[tasks[t].files]
           valid == ValidFiles(fs)
       IN  tasks' = [tasks EXCEPT ![t] =
                [@ EXCEPT !.pc = IF valid = <<>> THEN "clear" ELSE "send",
                          !.result = IF valid = <<>> THEN "no_valid" ELSE "",
                          !.seen = Len(fs),
                          !.valid_files = valid,
                          !.quality_groups = IF valid = <<>> THEN NoGroups
                                             ELSE QualityGroups(fs, valid)]]
    /\ UNCHANGED <<bot, user_sessions, lists, ingested>>

\* the sends of the suspended handlers that raised
SendErrors ==
    LET Failed(t) == {k \in 1..Len(tasks[t].sent) : ~tasks[t].sent[k].ok}
        n[T \in SUBSET TaskIds] ==
            IF T = {} THEN 0
            ELSE LET t == CHOOSE x \in T : TRUE IN Cardinality(Failed(t)) + n[T \ {t}]
    IN  n[TaskIds]

\* one send_video or send_document of the loops: it returns, or it raises and the
\* handler reports the error and goes on with the next file
endsequence_send(t, ok) ==
    /\ tasks[t].pc = "send"
    /\ ok \/ SendErrors < MaxErrors
    /\ LET order == DeliveryOrder(tasks[t].quality_groups)
           k == Len(tasks[t].sent) + 1
       IN  tasks' = [tasks EXCEPT ![t] =
                [@ EXCEPT !.sent = Append(@, [file |-> order[k], ok |-> ok]),
                          !.pc = IF k = Len(order) THEN "clear" ELSE "send",
                          !.result = IF k = Len(order) THEN "summary" ELSE ""]]
    /\ UNCHANGED <<bot, user_sessions, lists, ingested>>

\* the last statement of both branches; a missing key raises KeyError
endsequence_clear(t) ==
    /\ tasks[t].pc = "clear"
    /\ IF user_sessions[tasks[t].user] = NoSession
       THEN /\ tasks' = [tasks EXCEPT ![t] = Done(tasks[t].user, "KeyError")]
            /\ user_sessions' = user_sessions
       ELSE /\ tasks' = [tasks EXCEPT ![t] = Done(tasks[t].user, tasks[t].result)]
            /\ user_sessions' = DelSession(user_sessions, tasks[t].user)
    /\ lists' = Collect(lists, user_sessions', tasks')
    /\ UNCHANGED <<bot, ingested>>

\* the handler has returned (or raised) and its update is done
task_return(t) ==
    /\ tasks[t].pc = "done"
    /\ tasks' = [tasks EXCEPT ![t] = IdleTask]
    /\ UNCHANGED <<bot, user_sessions, lists, ingested>>

(***************************************************************************)
(* The formatter: parse_caption                                            *)
(***************************************************************************)
\* the default extension, whatever the caption
default_extension(text_lower) == <<".", "m", "k", "v">>

\* what parse_caption takes from the parser for one caption
extension(text_lower) ==
    IF Contains(text_lower, <<".", "m", "p", "4">>) THEN <<".", "m", "p", "4">>
    ELSE IF Contains(text_lower, <<".", "a", "v", "i">>) THEN <<".", "a", "v", "i">>
         ELSE <<".", "m", "k", "v">>

Analysis(text, info) ==
    [season |-> info.season,
     episode |-> info.episode,
     cleaned_name |-> clean_anime_name(info.anime_name),
     quality |-> extract_quality(text),
     language |-> extract_language(text),
     extension |-> extension(ToLower(text))]

Analyse(text) == Analysis(text, extract_episode_info(text))

\* the captions and texts of the updates
PlainCaption == <<"[", "S", "1", " ", "E", "2", "]", " ", "a", " ", "4", "8", "0", "p">>

\* a caption in the formatter's own output format
CanonicalCaption ==
    <<"/", "l", "e", "e", "c", "h", " ", "-", "n", " ", "[", "S", "0", "1", "-",
      "E", "0", "1", "]", " ", "X", " ", "[", "7", "2", "0", "P", "]", " ", "[",
      "S", "i", "n", "g", "l", "e", "]", ".", "m", "k", "v">>

Captions == <<PlainCaption, CanonicalCaption>>

\* the texts given to extract_episode_info, with the season, the episode and the
\* title that the family the text is written in stands for
EpisodeCase(text, season, episode, title) ==
    [text |-> text, season |-> season, episode |-> episode, title |-> title]

EpisodeCases ==
    { \* S1 E3
      EpisodeCase(<<"S", "1", " ", "E", "3">>,
                  <<"0", "1">>, <<"0", "3">>, <<>>),
      \* S12 E345
      EpisodeCase(<<"S", "1", "2", " ", "E", "3", "4", "5">>,
                  <<"1", "2">>, <<"3", "4", "5">>, <<>>),
      \* Show [S1 E2] x
      EpisodeCase(<<"S", "h", "o", "w", " ", "[", "S", "1", " ", "E",
                    "2", "]", " ", "x">>,
                  <<"0", "1">>, <<"0", "2">>, <<"S", "h", "o", "w">>),
      \* Show [S01 EP007]
      EpisodeCase(<<"S", "h", "o", "w", " ", "[", "S", "0", "1", " ",
                    "E", "P", "0", "0", "7", "]">>,
                  <<"0", "1">>, <<"0", "0", "7">>, <<"S", "h", "o", "w">>),
      \* @ch - Title S2 EP10
      EpisodeCase(<<"@", "c", "h", " ", "-", " ", "T", "i", "t", "l",
                    "e", " ", "S", "2", " ", "E", "P", "1", "0">>,
                  <<"0", "2">>, <<"1", "0">>, <<"T", "i", "t", "l", "e">>),
      \* @ch - [S3 EP4] Title [720p]
      EpisodeCase(<<"@", "c", "h", " ", "-", " ", "[", "S", "3", " ",
                    "E", "P", "4", "]", " ", "T", "i", "t", "l", "e",
                    " ", "[", "7", "2", "0", "p", "]">>,
                  <<"0", "3">>, <<"0", "4">>, <<"T", "i", "t", "l", "e">>),
      \* @ch - T S1 EP2 [S3 E4]
      EpisodeCase(<<"@", "c", "h", " ", "-", " ", "T", " ", "S", "1",
                    " ", "E", "P", "2", " ", "[", "S", "3", " ", "E",
                    "4", "]">>,
                  <<"0", "1">>, <<"0", "2">>, <<"T">>),
      \* @ch - [S3 EP4] T S1 EP2
      EpisodeCase(<<"@", "c", "h", " ", "-", " ", "[", "S", "3", " ", "E", "P", "4", "]", " ", "T", " ", "S", "1", " ", "E", "P", "2">>,
                  <<"0", "1">>, <<"0", "2">>,
                  <<"[", "S", "3", " ", "E", "P", "4", "]", " ", "T">>),
      \* Show S5 EP6
      EpisodeCase(<<"S", "h", "o", "w", " ", "S", "5", " ", "E", "P",
                    "6">>,
                  <<"0", "5">>, <<"0", "6">>, <<"S", "h", "o", "w">>),
      \* a S3 E4 [S1 E2]
      EpisodeCase(<<"a", " ", "S", "3", " ", "E", "4", " ", "[", "S",
                    "1", " ", "E", "2", "]">>,
                  <<"0", "1">>, <<"0", "2">>, <<"a", " ", "S", "3", " ", "E", "4">>),
      \* show s1 e3
      EpisodeCase(<<"s", "h", "o", "w", " ", "s", "1", " ", "e", "3">>,
                  <<"0", "1">>, <<"0", "3">>, <<"s", "h", "o", "w">>),
      \* plain words
      EpisodeCase(<<"p", "l", "a", "i", "n", " ", "w", "o", "r", "d",
                    "s">>,
                  <<"0", "1">>, <<"0", "1">>, <<"p", "l", "a", "i", "n", " ", "w", "o", "r", "d", "s">>),
      \* the structured format, with a bracketed tag after it
      EpisodeCase(TvSign \o <<" ", "T", "i", "t", "l", "e", " ", "[", "S", "2", "]", " ">> \o EpisodeLabel
                    \o <<" ", ":", " ", "5", " ", "[", "S", "1", " ", "E", "9", "]">>,
                  <<"0", "2">>, <<"0", "5">>, <<"T", "i", "t", "l", "e">>),
      \* the structured format, neither its title nor its episode written
      EpisodeCase(TvSign \o <<" ">> \o EpisodeLabel, <<"0", "1">>, <<"0", "1">>, <<>>) }

\* the digit runs given to extract_quality between "[" and "p]": the enumerated
\* values, values that are not enumerated, and an enumerated value written
\* with a leading zero
QualityRuns ==
    { <<"1", "4", "4">>, <<"2", "4", "0">>, <<"3", "6", "0">>,
      <<"4", "8", "0">>, <<"7", "2", "0">>, <<"1", "0", "8", "0">>,
      <<"1", "4", "4", "0">>, <<"2", "1", "6", "0">>, <<"9", "9", "9">>,
      <<"1">>, <<"1", "4", "8", "0">>, <<"7", "2", "0", "0">>,
      <<"0", "7", "2", "0">> }

BracketedQuality(s) == <<"[">> \o s \o <<"p", "]">>

\* texts in which several families of extract_quality find digits, with the
\* quality of the first family in list order whose digits are enumerated
QualityCase(text, quality) == [text |-> text, quality |-> quality]

QualityCases ==
    { \* 999p [480]
      QualityCase(<<"9", "9", "9", "p", " ", "[", "4", "8", "0", "]">>,
                  <<"4", "8", "0", "P">>),
      \* QUALITY: 1080 [999]
      QualityCase(<<"Q", "U", "A", "L", "I", "T", "Y", ":", " ", "1",
                    "0", "8", "0", " ", "[", "9", "9", "9", "]">>,
                  <<"1", "0", "8", "0", "P">>),
      \* [999] 360 p
      QualityCase(<<"[", "9", "9", "9", "]", " ", "3", "6", "0", " ",
                    "p">>,
                  <<"3", "6", "0", "P">>),
      \* [720] 480p
      QualityCase(<<"[", "7", "2", "0", "]", " ", "4", "8", "0", "p">>,
                  <<"4", "8", "0", "P">>),
      \* [480] 1080p
      QualityCase(<<"[", "4", "8", "0", "]", " ", "1", "0", "8", "0",
                    "p">>,
                  <<"1", "0", "8", "0", "P">>),
      \* 360 p 480p
      QualityCase(<<"3", "6", "0", " ", "p", " ", "4", "8", "0", "p">>,
                  <<"4", "8", "0", "P">>),
      \* none here
      QualityCase(<<"n", "o", "n", "e", " ", "h", "e", "r", "e">>,
                  <<"7", "2", "0", "P">>) }

\* the digit runs written after S and after E: shorter than two digits, two
\* digits, longer, and with leading zeros
SeasonRuns == {<<"1">>, <<"1", "2">>, <<"0", "0", "7">>}

EpisodeRuns == {<<"3">>, <<"0", "3">>, <<"3", "4", "5">>, <<"0">>}

SeasonEpisode(s, e) == <<"S">> \o s \o <<" ", "E">> \o e

\* texts with and without an audio field, with the code of the first entry of
\* the table whose key is in the field, or in the whole text when there is no
\* field
LanguageCase(text, language) == [text |-> text, language |-> language]

LanguageCases ==
    { \* Audio: English, Tamil
      LanguageCase(<<"A", "u", "d", "i", "o", ":", " ", "E", "n", "g", "l", "i", "s", "h", ",", " ", "T", "a", "m", "i", "l">>,
                   <<"E", "n", "g">>),
      \* Audio: english tamil
      LanguageCase(<<"A", "u", "d", "i", "o", ":", " ", "e", "n", "g", "l", "i", "s", "h", " ", "t", "a", "m", "i", "l">>,
                   <<"T", "a", "m">>),
      \* x tamil Audio: Dual
      LanguageCase(<<"x", " ", "t", "a", "m", "i", "l", " ", "A", "u", "d", "i", "o", ":", " ", "D", "u", "a", "l">>,
                   <<"D", "u", "a", "l">>),
      \* AUDIO : dual audio, eng
      LanguageCase(<<"A", "U", "D", "I", "O", " ", ":", " ", "d", "u", "a", "l", " ", "a", "u", "d", "i", "o", ",", " ", "e", "n", "g">>,
                   <<"D", "u", "a", "l">>),
      \* multi audio eng
      LanguageCase(<<"m", "u", "l", "t", "i", " ", "a", "u", "d", "i", "o", " ", "e", "n", "g">>,
                   <<"E", "n", "g">>),
      \* dual audio
      LanguageCase(<<"d", "u", "a", "l", " ", "a", "u", "d", "i", "o">>,
                   <<"D", "u", "a", "l">>),
      \* Multi x
      LanguageCase(<<"M", "u", "l", "t", "i", " ", "x">>,
                   <<"M", "u", "l", "t", "i">>) }

\* a text whose audio field names no language of the table
FieldWithoutKey == <<"A", "u", "d", "i", "o", ":", " ", "H", "i", "n", "d", "i", "]", " ", "t", "a", "m">>

\* captions that name a file, with the extension of the formatted caption
ExtensionCase(text, suffix) == [text |-> text, suffix |-> suffix]

ExtensionCases ==
    { \* S1 E3 a.MP4
      ExtensionCase(<<"S", "1", " ", "E", "3", " ", "a", ".", "M", "P", "4">>,
                    <<".", "m", "p", "4">>),
      \* x.avi [S1 E2] y.mp4
      ExtensionCase(<<"x", ".", "a", "v", "i", " ", "[", "S", "1", " ", "E", "2", "]", " ", "y", ".", "m", "p", "4">>,
                    <<".", "m", "p", "4">>),
      \* S1 E3 a.Avi
      ExtensionCase(<<"S", "1", " ", "E", "3", " ", "a", ".", "A", "v", "i">>,
                    <<".", "a", "v", "i">>),
      \* [S1 E2] a 480p
      ExtensionCase(<<"[", "S", "1", " ", "E", "2", "]", " ", "a", " ", "4", "8", "0", "p">>,
                    <<".", "m", "k", "v">>) }

CaptionTexts == {c.text : c \in ExtensionCases}

\* captions whose formatted captions are taken as the filenames of files
RoundTripTexts ==
    { \* S12 E345 [144p]
      <<"S", "1", "2", " ", "E", "3", "4", "5", " ", "[", "1", "4", "4", "p", "]">>,
      \* [S1 E2] a [0720p]
      <<"[", "S", "1", " ", "E", "2", "]", " ", "a", " ", "[", "0", "7", "2", "0", "p", "]">>,
      \* S1 E3 a 1080p
      <<"S", "1", " ", "E", "3", " ", "a", " ", "1", "0", "8", "0", "p">>,
      \* S1 E3 a.MP4
      <<"S", "1", " ", "E", "3", " ", "a", ".", "M", "P", "4">>,
      PlainCaption }

\* the texts given to the parser
ParserTexts ==
    {c.text : c \in EpisodeCases} \cup {c.text : c \in QualityCases}
        \cup CaptionTexts \cup RoundTripTexts
        \cup {c.text : c \in LanguageCases} \cup {FieldWithoutKey}
        \cup {SeasonEpisode(s, e) : s \in SeasonRuns, e \in EpisodeRuns}
        \cup {BracketedQuality(s) : s \in QualityRuns}
        \cup {PlainCaption, CanonicalCaption}

\* the parser is applied to each text of the updates once
Analysed == [text \in ParserTexts |-> Analyse(text)]

AnalysisOf(text) == IF text \in ParserTexts THEN Analysed[text] ELSE Analyse(text)

\* the index of status_command: self.message_count // 3
status_index(count, n) == (count \div 3) % n

\* prefix_index = (self.message_count - 1) // 3 % len(self.prefixes)
prefix_index(count, n) == ((count - 1) \div 3) % n

default_prefix == <<"/", "l", "e", "e", "c", "h", " ", "-", "n">>

\* a rotation that stays at the first prefix
first_prefix(count, ps) == IF ps # <<>> THEN ps[1] ELSE default_prefix

current_prefix(count, ps) ==
    IF ps # <<>> THEN ps[prefix_index(count, Len(ps)) + 1] ELSE default_prefix

\* anime_name: the fixed name if there is one, else the cleaned name of the
\* caption, else "Unknown Anime"
chosen_name(cleaned_name, fixed) ==
    IF fixed # <<>> THEN fixed
    ELSE IF cleaned_name # <<>> THEN cleaned_name
         ELSE <<"U", "n", "k", "n", "o", "w", "n", " ", "A", "n", "i", "m", "e">>

\* the language is added to a name that does not hold it
with_language(anime_name, language) ==
    IF language # <<>> /\ ~Contains(anime_name, language)
    THEN Strip(anime_name \o <<" ">> \o language)
    ELSE anime_name

\* an f-string with a blank for the hyphen of the tag
formatted_spaced(prefix, a, fixed) ==
    prefix \o <<" ", "[", "S">> \o a.season \o <<" ", "E">> \o a.episode \o <<"]", " ">>
    \o with_language(chosen_name(a.cleaned_name, fixed), a.language)
    \o <<" ", "[">> \o a.quality \o <<"]", " ", "[", "S", "i", "n", "g", "l", "e", "]">>
    \o a.extension

\* the f-string of the formatted caption
formatted(prefix, a, fixed) ==
    prefix \o <<" ", "[", "S">> \o a.season \o <<"-", "E">> \o a.episode \o <<"]", " ">>
    \o with_language(chosen_name(a.cleaned_name, fixed), a.language)
    \o <<" ", "[">> \o a.quality \o <<"]", " ", "[", "S", "i", "n", "g", "l", "e", "]">>
    \o a.extension

\* the formatted caption of a caption that is not empty; count is
\* self.message_count after the increment
format_caption(caption, count, ps, fixed) ==
    formatted(current_prefix(count, ps), AnalysisOf(Strip(caption)), fixed)

\* a formatter without the test for the empty caption
parse_caption_unchecked(caption, count, ps, fixed) ==
    [message_count |-> count + 1,
     formatted_caption |-> format_caption(caption, count + 1, ps, fixed)]

\* a formatter that counts the captions it formats
parse_caption_counting_formatted(caption, count, ps, fixed) ==
    IF caption = <<>> THEN [message_count |-> count, formatted_caption |-> <<>>]
    ELSE [message_count |-> count + 1,
          formatted_caption |-> format_caption(caption, count + 1, ps, fixed)]

\* parse_caption on a bot with the given message_count, prefixes and
\* fixed_anime_name: the message_count it leaves and the string it returns
parse_caption(caption, count, ps, fixed) ==
    [message_count |-> count + 1,
     formatted_caption |-> IF caption = <<>> THEN <<>>
                           ELSE format_caption(caption, count + 1, ps, fixed)]

\* the bot and the record of the call after a call that has left r
Returned(u, caption, r) ==
    /\ message_count' = r.message_count
    /\ calls' = calls + 1
    /\ last_call' = [user |-> u, caption |-> caption,
                     message_count |-> r.message_count, prefixes |-> prefixes,
                     formatted_caption |-> r.formatted_caption]

\* formatted = self.parse_caption(caption, user_id)
Call(u, caption) ==
    Returned(u, caption, parse_caption(caption, message_count, prefixes, fixed_anime_name))

(***************************************************************************)
(* The handlers that format and the handlers that change the settings.     *)
(* Their blocks: the handler up to its first await, the SELECT of          *)
(* load_user_settings, the assignments after it, the handler's own body,   *)
(* the arguments of the INSERT of save_user_settings, the INSERT.          *)
(***************************************************************************)
\* a new update takes the lowest free handler slot
FreeHandler(h) == handlers[h].pc = "idle" /\ \A x \in 1..(h - 1) : handlers[x].pc # "idle"

Started(u, kind, text, index, pc) ==
    [IdleHandler EXCEPT !.pc = pc, !.user = u, !.kind = kind, !.text = text, !.index = index]

\* a captioned media of a requester who is in no session
handle_media_with_caption(u, m, h) ==
    /\ m.caption # <<>>
    /\ user_sessions[u] = NoSession
    /\ FreeHandler(h)
    /\ handlers' = [handlers EXCEPT ![h] = Started(u, "media", m.caption, 0, "fetch")]
    /\ UNCHANGED <<message_count, prefixes, fixed_anime_name, db, db_errors, calls,
                   last_call, sequencer>>

\* r'\d+\.\s*.*?https?://'
bulk_shape ==
    <<Some(Digit), Ch("."), Many(Space), FewMany(AnyChar), Txt(<<"h", "t", "t", "p">>),
      Maybe(Ch("s")), Txt(<<":", "/", "/">>)>>

\* the check is applied to each text of the updates once
BulkShaped ==
    SubSeq([k \in 1..Len(Captions) |-> Search(bulk_shape, Captions[k], FALSE) # NoMatch],
           1, Len(Captions))

\* the same for the texts of the bulk updates
BulkTextShaped == [text \in BulkTexts |-> Search(bulk_shape, text, FALSE) # NoMatch]

is_bulk(text) ==
    IF \E k \in 1..Len(Captions) : Captions[k] = text
    THEN BulkShaped[CHOOSE k \in 1..Len(Captions) : Captions[k] = text]
    ELSE IF text \in BulkTexts THEN BulkTextShaped[text]
    ELSE Search(bulk_shape, text, FALSE) # NoMatch

\* entries = self.parse_bulk_message(text)
entries_of(text) ==
    IF text \in BulkTexts THEN BulkParsed[text] ELSE parse_bulk_message(text)

\* a text that is a bulk listing: handle_text_message hands it to
\* handle_bulk_message, which parses it and is suspended at the reply when
\* there are no entries, at store_episodes when there are
handle_bulk_message(u, text, h) ==
    /\ FreeHandler(h)
    /\ text # <<>>
    /\ ~StartsWith(text, <<"/">>)
    /\ is_bulk(text)
    /\ handlers' = [handlers EXCEPT ![h] =
                        [Started(u, "bulk", text, 0,
                                 IF entries_of(text) = <<>> THEN "reply" ELSE "store")
                            EXCEPT !.entries = entries_of(text)]]
    /\ UNCHANGED <<message_count, prefixes, fixed_anime_name, db, db_errors, calls,
                   last_call, sequencer>>

\* handle_bulk_message after its awaits: the episodes go to tables that are
\* no state of the bot, and the handler returns
handle_bulk_return(h) ==
    /\ handlers[h].kind = "bulk" /\ handlers[h].pc \in {"reply", "store"}
    /\ handlers' = [handlers EXCEPT ![h] = IdleHandler]
    /\ UNCHANGED <<message_count, prefixes, fixed_anime_name, db, db_errors, calls,
                   last_call, sequencer>>

\* a text that is no command and no bulk listing
handle_text_message(u, text, h) ==
    /\ FreeHandler(h)
    /\ text # <<>>
    /\ ~StartsWith(text, <<"/">>)
    /\ ~is_bulk(text)
    /\ handlers' = [handlers EXCEPT ![h] = Started(u, "text", text, 0, "fetch")]
    /\ UNCHANGED <<message_count, prefixes, fixed_anime_name, db, db_errors, calls,
                   last_call, sequencer>>

\* /delprefix INDEX
delprefix_command(u, index, h) ==
    /\ FreeHandler(h)
    /\ handlers' = [handlers EXCEPT ![h] = Started(u, "delprefix", <<>>, index, "fetch")]
    /\ UNCHANGED <<message_count, prefixes, fixed_anime_name, db, db_errors, calls,
                   last_call, sequencer>>

\* /start
start_command(u, h) ==
    /\ FreeHandler(h)
    /\ handlers' = [handlers EXCEPT ![h] = Started(u, "start", <<>>, 0, "fetch")]
    /\ UNCHANGED <<message_count, prefixes, fixed_anime_name, db, db_errors, calls,
                   last_call, sequencer>>

\* load_user_settings: the SELECT returns the row of the requester, or raises
load_user_settings_fetch(h, ok) ==
    /\ handlers[h].pc = "fetch"
    /\ ok \/ db_errors < MaxDbErrors
    /\ handlers' = [handlers EXCEPT ![h].pc = "apply",
                                    ![h].row = IF ok THEN db[handlers[h].user] ELSE NoRow]
    /\ db_errors' = IF ok THEN db_errors ELSE db_errors + 1
    /\ UNCHANGED <<message_count, prefixes, fixed_anime_name, db, calls, last_call,
                   sequencer>>

\* load_user_settings: the assignments from the row; /start only replies after it
load_user_settings_apply(h) ==
    /\ handlers[h].pc = "apply"
    /\ LET settings == handlers[h].row
       IN  /\ fixed_anime_name' = IF settings.saved /\ settings.fixed_anime_name # <<>>
                                  THEN settings.fixed_anime_name ELSE fixed_anime_name
           /\ prefixes' = IF settings.saved THEN settings.prefixes ELSE prefixes
    /\ handlers' = [handlers EXCEPT ![h] =
                      IF @.kind = "start" THEN IdleHandler
                      ELSE [@ EXCEPT !.pc = "body", !.row = NoRow]]
    /\ UNCHANGED <<message_count, db, db_errors, calls, last_call, sequencer>>

\* handle_media_with_caption after the load: a caption that comes back
\* unchanged is reported as not parsed, and only then are the settings saved
handle_media_format(h) ==
    /\ handlers[h].pc = "body" /\ handlers[h].kind = "media"
    /\ Call(handlers[h].user, handlers[h].text)
    /\ handlers' = [handlers EXCEPT ![h] =
                      IF /\ last_call'.formatted_caption # <<>>
                         /\ last_call'.formatted_caption # handlers[h].text
                      THEN IdleHandler ELSE [@ EXCEPT !.pc = "save"]]
    /\ UNCHANGED <<prefixes, fixed_anime_name, db, db_errors, sequencer>>

\* handle_text_message after the load
handle_text_format(h) ==
    /\ handlers[h].pc = "body" /\ handlers[h].kind = "text"
    /\ Call(handlers[h].user, handlers[h].text)
    /\ handlers' = [handlers EXCEPT ![h].pc = "save"]
    /\ UNCHANGED <<prefixes, fixed_anime_name, db, db_errors, sequencer>>

\* self.prefixes.pop(index)
Pop(ps, index) == SubSeq(ps, 1, index) \o SubSeq(ps, index + 2, Len(ps))

\* delprefix_command after the load
delprefix_pop(h) ==
    /\ handlers[h].pc = "body" /\ handlers[h].kind = "delprefix"
    /\ LET index == handlers[h].index - 1
       IN  IF index < 0 \/ index >= Len(prefixes)
           THEN handlers' = [handlers EXCEPT ![h] = IdleHandler] /\ prefixes' = prefixes
           ELSE handlers' = [handlers EXCEPT ![h].pc = "save"] /\ prefixes' = Pop(prefixes, index)
    /\ UNCHANGED <<message_count, fixed_anime_name, db, db_errors, calls, last_call,
                   sequencer>>

\* /name NAME and /name reset
name_command(u, new_name, h) ==
    /\ new_name # <<>>
    /\ FreeHandler(h)
    /\ fixed_anime_name' = IF ToLower(new_name) = <<"r", "e", "s", "e", "t">> THEN <<>>
                           ELSE new_name
    /\ handlers' = [handlers EXCEPT ![h] = Started(u, "name", <<>>, 0, "save")]
    /\ UNCHANGED <<message_count, prefixes, db, db_errors, calls, last_call, sequencer>>

\* /addprefix PREFIX with a prefix that is not in the list
addprefix_command(u, new_prefix, h) ==
    /\ new_prefix # <<>>
    /\ \A k \in 1..Len(prefixes) : prefixes[k] # new_prefix
    /\ FreeHandler(h)
    /\ prefixes' = Append(prefixes, new_prefix)
    /\ handlers' = [handlers EXCEPT ![h] = Started(u, "addprefix", <<>>, 0, "save")]
    /\ UNCHANGED <<message_count, fixed_anime_name, db, db_errors, calls, last_call,
                   sequencer>>

\* /format TEXT: no load, no save, no await before the call
format_command(u, text) ==
    /\ text # <<>>
    /\ Call(u, text)
    /\ UNCHANGED <<prefixes, fixed_anime_name, db, handlers, db_errors, sequencer>>

\* parse_caption called on the bot by a caller that is no handler, with any
\* caption, the empty one too
parse_caption_call(u, caption) ==
    /\ Call(u, caption)
    /\ UNCHANGED <<prefixes, fixed_anime_name, db, handlers, db_errors, sequencer>>

\* save_user_settings: the arguments of the INSERT, read after the connection
\* has been acquired
save_user_settings_read(h) ==
    /\ handlers[h].pc = "save"
    /\ handlers' = [handlers EXCEPT ![h].pc = "write",
                                    ![h].row = Row(fixed_anime_name, prefixes)]
    /\ UNCHANGED <<message_count, prefixes, fixed_anime_name, db, db_errors, calls,
                   last_call, sequencer>>

\* save_user_settings: the INSERT writes the row, or raises
save_user_settings_write(h, ok) ==
    /\ handlers[h].pc = "write"
    /\ ok \/ db_errors < MaxDbErrors
    /\ db' = IF ok THEN [db EXCEPT ![handlers[h].user] = handlers[h].row] ELSE db
    /\ db_errors' = IF ok THEN db_errors ELSE db_errors + 1
    /\ handlers' = [handlers EXCEPT ![h] = IdleHandler]
    /\ UNCHANGED <<message_count, prefixes, fixed_anime_name, calls, last_call, sequencer>>

(***************************************************************************)
(* The sequencing commands of the requesters US, who send the media MS,    *)
(* with the handler slots TS and at most maxf files over the run.          *)
(***************************************************************************)
SequencingNext(US, MS, TS, maxf) ==
    \/ \E u \in US : sequence_command(u)
    \/ \E u \in US, m \in MS : ingested < maxf /\ handle_sequence_file(u, m)
    \/ \E u \in US, t \in TS : endsequence_begin(u, t)
    \/ \E t \in TS : endsequence_partition(t)
    \/ \E t \in TS, ok \in BOOLEAN : endsequence_send(t, ok)
    \/ \E t \in TS : endsequence_clear(t)
    \/ \E t \in TS : task_return(t)

\* two requesters, overlapping /endsequence handlers
SpecSeq == Init /\ [][SequencingNext(Users, SessionInputs, TaskIds, MaxFiles)]_vars

\* one requester and one /endsequence at a time, every kind of file
SpecDeliver == Init /\ [][SequencingNext({"u1"}, MediaInputs, {1}, MaxFiles)]_vars

\* one requester and one /endsequence at a time, the files of the summary
SpecSummary == Init /\ [][SequencingNext({"u1"}, SummaryInputs, {1}, MaxFiles)]_vars

(***************************************************************************)
(* The formatting updates of the requesters US with the captions CS, the   *)
(* handler slots HS and at most maxc calls of the formatter over the run.  *)
(***************************************************************************)
Media(caption) == [filename |-> <<>>, caption |-> caption, file_type |-> "document"]

FormattingNext(US, CS, HS, maxc) ==
    \/ \E u \in US, c \in CS, h \in HS :
          calls < maxc /\ handle_media_with_caption(u, Media(c), h)
    \/ \E u \in US, c \in CS, h \in HS : calls < maxc /\ handle_text_message(u, c, h)
    \/ \E u \in US, c \in CS : calls < maxc /\ format_command(u, c)
    \/ \E h \in HS, ok \in BOOLEAN : load_user_settings_fetch(h, ok)
    \/ \E h \in HS : load_user_settings_apply(h)
    \/ \E h \in HS : calls < maxc /\ handle_media_format(h)
    \/ \E h \in HS : calls < maxc /\ handle_text_format(h)
    \/ \E h \in HS : save_user_settings_read(h)
    \/ \E h \in HS, ok \in BOOLEAN : save_user_settings_write(h, ok)

\* /delprefix with the indexes IS
DelprefixNext(US, IS, HS) ==
    \/ \E u \in US, index \in IS, h \in HS : delprefix_command(u, index, h)
    \/ \E h \in HS : delprefix_pop(h)

\* /name, /addprefix and /start
SettingsNext(US, NS, PS, HS) ==
    \/ \E u \in US, new_name \in NS, h \in HS : name_command(u, new_name, h)
    \/ \E u \in US, new_prefix \in PS, h \in HS : addprefix_command(u, new_prefix, h)
    \/ \E u \in US, h \in HS : start_command(u, h)

\* the rotation: one requester formats, deletes prefixes and fixes the name
SpecRotate ==
    Init /\ [][\/ FormattingNext({"u1"}, {PlainCaption, CanonicalCaption}, {1}, MaxCalls)
               \/ DelprefixNext({"u1"}, {1}, {1})
               \/ name_command("u1", <<"X">>, 1)]_vars

\* one requester formats captions that name files, deletes prefixes down to
\* the empty list and fixes the name
SpecCaption ==
    Init /\ [][\/ FormattingNext({"u1"}, CaptionTexts, {1}, MaxCaptionCalls)
               \/ DelprefixNext({"u1"}, {1}, {1})
               \/ name_command("u1", <<"X">>, 1)]_vars

\* the bulk listings of one requester, in handlers that overlap
\* a fixed name and a prefix that hold tags of their own
TaggedName == <<"X", " ", "[", "S", "9", "-", "E", "9", "]", " ", "[", "4", "8", "0", "P", "]">>

TaggedPrefix == <<"[", "S", "9", "-", "E", "9", "]">>

\* the formatter with /name, /addprefix and /delprefix
SpecRoundTrip ==
    Init /\ [][\/ FormattingNext({"u1"}, RoundTripTexts, {1}, MaxRoundTripCalls)
               \/ DelprefixNext({"u1"}, {1}, {1})
               \/ name_command("u1", TaggedName, 1)
               \/ addprefix_command("u1", TaggedPrefix, 1)]_vars

SpecBulk ==
    Init /\ [][\/ \E text \in BulkTexts, h \in HandlerIds : handle_bulk_message("u1", text, h)
               \/ \E h \in HandlerIds : handle_bulk_return(h)]_vars

\* two requesters whose formatting handlers overlap
SpecFormat ==
    Init /\ [][FormattingNext(Users, {PlainCaption}, HandlerIds, MaxOverlappingCalls)]_vars

\* the arguments of /name
Names == {<<"X">>, <<"r", "e", "s", "e", "t">>}

\* two requesters who format and fix the name, one update at a time
SpecName ==
    Init /\ [][\/ FormattingNext(Users, {PlainCaption}, {1}, MaxNamedCalls)
               \/ \E u \in Users, new_name \in Names : name_command(u, new_name, 1)]_vars

\* the texts of the parser given to /format, one call at a time
SpecParser ==
    Init /\ [][\E text \in ParserTexts :
                  calls < MaxParsedCalls /\ format_command("u1", text)]_vars

\* the new prefix of /addprefix
NewPrefixes == {<<"/", "m">>}

\* every operation, one requester; /delprefix with the last index of the
\* initial list and the one after it
Next ==
    \/ SequencingNext({"u1"}, {Ep2At480}, {1}, MaxCountedFiles)
    \/ FormattingNext({"u1"}, {PlainCaption}, {1}, MaxCountedCalls)
    \/ DelprefixNext({"u1"}, {Len(initial_prefixes), Len(initial_prefixes) + 1}, {1})
    \/ SettingsNext({"u1"}, {<<"X">>}, NewPrefixes, {1})
    \/ \E caption \in {<<>>, PlainCaption} :
          calls < MaxCountedCalls /\ parse_caption_call("u1", caption)
    \/ handle_bulk_message("u1", Listing, 1)
    \/ handle_bulk_return(1)

Spec == Init /\ [][Next]_vars

(***************************************************************************)
(* generate_summary, as far as its numbers go                              *)
(***************************************************************************)
\* processed_count = len(valid_files)
processed_count(t) == Len(tasks[t].valid_files)

\* failed_count = total_files - processed_count, total_files being file_count
failed_count(t) == tasks[t].file_count - processed_count(t)

RECURSIVE Decimal(_)
\* str(n) for n >= 0
Decimal(n) ==
    IF n < 10 THEN <<<<"0", "1", "2", "3", "4", "5", "6", "7", "8", "9">>[n + 1]>>
    ELSE Decimal(n \div 10) \o Decimal(n % 10)

\* f"{n:02d}"
Format02d(n) == IF n < 10 THEN <<"0">> \o Decimal(n) ELSE Decimal(n)

\* f"E{episodes[0]:02d}-E{episodes[-1]:02d}" if episodes else "None"
episode_range(episodes) ==
    IF episodes = <<>> THEN <<"N", "o", "n", "e">>
    ELSE <<"E">> \o Format02d(episodes[1]) \o <<"-", "E">>
         \o Format02d(episodes[Len(episodes)])

\* the episode numbers of the files s of the list fs, in the order of s
EpisodesOf(fs, s) == [k \in 1..Len(s) |-> fs[s[k]].episode_number]

\* sorted([f.episode_number for f in quality_groups[quality]])
sorted_episodes(fs, s) == EpisodesOf(fs, SortByEpisode(fs, s))

\* [f for f in other_files if f.episode_number]: 0 is as false as None
Numbered(fs, s) ==
    FilterSeq(s, {i \in 1..Len(fs) : fs[i].episode_number \notin {None, 0}})

\* a line of the summary: the number of files of a bucket and their range
NoLine == [count |-> 0, episode_range |-> <<>>]

SummaryLine(count, range) == [count |-> count, episode_range |-> range]

\* the line of one of the three fixed buckets: if quality_groups[quality]
fixed_line(fs, s) ==
    IF s = <<>> THEN NoLine ELSE SummaryLine(Len(s), episode_range(sorted_episodes(fs, s)))

\* the line of the other files: if other_files
other_line(fs, s) ==
    IF s = <<>> THEN NoLine
    ELSE SummaryLine(Len(s), episode_range(sorted_episodes(fs, Numbered(fs, s))))

\* the summary of the handler t: its four lines and the failed count, which
\* has a line of its own when it is above 0
generate_summary(t) ==
    [q480 |-> fixed_line(lists[tasks[t].files], tasks[t].quality_groups.q480),
     q720 |-> fixed_line(lists[tasks[t].files], tasks[t].quality_groups.q720),
     q1080 |-> fixed_line(lists[tasks[t].files], tasks[t].quality_groups.q1080),
     other |-> other_line(lists[tasks[t].files], tasks[t].quality_groups.other),
     failed |-> IF failed_count(t) > 0 THEN failed_count(t) ELSE 0]

(***************************************************************************)
(* What the properties speak of.                                           *)
(***************************************************************************)
Active(u) == user_sessions[u] # NoSession

Collected(u) == lists[user_sessions[u]]

\* the handler has partitioned its files
Partitioned(t) == tasks[t].pc = "send" \/ (tasks[t].pc = "clear" /\ tasks[t].result = "summary")

\* the handler has made its last transport call and has computed the summary
Summarised(t) == tasks[t].pc = "clear" /\ tasks[t].result = "summary"

\* the files of a handler, by the references it holds
FileOf(t, i) == lists[tasks[t].files][i]

SentFiles(t) == {tasks[t].sent[k].file : k \in 1..Len(tasks[t].sent)}

Bucket(f) ==
    CASE f.video_quality = 480 -> 1
      [] f.video_quality = 720 -> 2
      [] f.video_quality = 1080 -> 3
      [] OTHER -> 4

InSeq(s, x) == \E k \in 1..Len(s) : s[k] = x

Occurrences(s, x) == Cardinality({k \in 1..Len(s) : s[k] = x})

BucketsOf(t, i) ==
    {b \in {"q480", "q720", "q1080", "other"} : InSeq(tasks[t].quality_groups[b], i)}

\* a handler ends: it returns after its last reply, or it raises
Ends(t) == tasks[t].pc # "done" /\ tasks'[t].pc = "done"

\* a call of the formatter has returned a formatted caption
Formatted == last_call # NoCall /\ last_call.caption # <<>>

\* the head of the f-string for the prefix p
CaptionHead(p) == p \o <<" ", "[", "S">>

\* the prefix of the list ps for the message count n, counted after the increment
Rotated(ps, n) == ps[(((n - 1) \div 3) % Len(ps)) + 1]

(***************************************************************************)
(* C1: every call of the formatter made while the prefix list is not empty *)
(* puts into its output the prefix                                         *)
(* prefixes[floor((message_count - 1) / 3) mod len(prefixes)], with        *)
(* message_count read after the increment of that call.                    *)
(***************************************************************************)
C1_PrefixRotates ==
    (Formatted /\ last_call.prefixes # <<>>) =>
        StartsWith(last_call.formatted_caption,
                   CaptionHead(Rotated(last_call.prefixes, last_call.message_count)))

\* with two prefixes left the seventh call is back at the first prefix, on a
\* bot that has used the second
C1_Witness ==
    /\ Formatted
    /\ last_call.message_count = 7
    /\ Len(last_call.prefixes) = 2
    /\ last_call.prefixes[1] # last_call.prefixes[2]
    /\ StartsWith(last_call.formatted_caption, CaptionHead(last_call.prefixes[1]))
    /\ ~StartsWith(last_call.formatted_caption, CaptionHead(last_call.prefixes[2]))

(***************************************************************************)
(* C2: message_count is always the number of calls of the formatter since  *)
(* the start of the process: every call, with an empty caption or not,     *)
(* from a handler, from /format or from elsewhere, adds exactly 1 to it,   *)
(* and no other operation changes it.                                      *)
(***************************************************************************)
C2_CountsCalls ==
    /\ [](message_count = calls)
    /\ [][IF calls' = calls THEN message_count' = message_count
          ELSE calls' = calls + 1 /\ message_count' = message_count + 1]_vars

\* a call with an empty caption has been counted after a handler has called,
\* and a session has been ended and a setting saved meanwhile
C2_Witness ==
    /\ last_call # NoCall
    /\ last_call.caption = <<>>
    /\ message_count = MaxCountedCalls
    /\ ingested = MaxCountedFiles
    /\ db["u1"] # NoRow

(***************************************************************************)
(* C3: under any interleaving of the caption and text updates of different *)
(* requesters the increment and the prefix selection of a call are atomic: *)
(* no two calls see the same message_count, and the k-th call in the       *)
(* order of the process uses the index floor((k - 1) / 3) mod              *)
(* len(prefixes), whoever the requester is.                                *)
(***************************************************************************)
C3_GlobalOrder ==
    /\ last_call # NoCall => last_call.message_count = calls
    /\ (Formatted /\ last_call.prefixes # <<>>) =>
           StartsWith(last_call.formatted_caption, CaptionHead(Rotated(last_call.prefixes, calls)))

\* the fourth call of the process is the first of its requester, made while
\* a handler of the other requester is suspended, and it uses the second prefix
C3_Witness ==
    /\ Formatted
    /\ calls = 4
    /\ last_call.user = "u2"
    /\ \E h \in HandlerIds : handlers[h].pc = "body" /\ handlers[h].user = "u1"
    /\ \A h \in HandlerIds : handlers[h].user = "u2" => handlers[h].pc = "save"
    /\ db["u2"] = NoRow
    /\ StartsWith(last_call.formatted_caption, CaptionHead(last_call.prefixes[2]))

(***************************************************************************)
(* C4: whenever an /endsequence has been processed for a requester, that   *)
(* requester has no active session afterwards, whatever the outcome.       *)
(* It fails: an /endsequence on a session that holds no file reports "no   *)
(* files" and leaves the session active.                                   *)
(***************************************************************************)
C4_EndClearsSession ==
    [][\A t \in TaskIds : Ends(t) => user_sessions'[tasks'[t].user] = NoSession]_vars

(***************************************************************************)
(* C5: sessions are isolated per requester: a file ingested by one         *)
(* requester is never in the session of another, never among the files a   *)
(* handler of another requester delivers or counts, and a session is       *)
(* removed only by an /endsequence of its own requester; two requesters    *)
(* never share a list.                                                     *)
(***************************************************************************)
OwnFilesOnly ==
    /\ \A u \in Users : Active(u) =>
           \A i \in 1..Len(Collected(u)) : Collected(u)[i].sender = u
    /\ \A t \in TaskIds : tasks[t].pc \in {"partition", "send", "clear"} =>
           \A i \in 1..Len(lists[tasks[t].files]) : FileOf(t, i).sender = tasks[t].user
    /\ \A u, v \in Users : u # v /\ Active(u) => user_sessions[u] # user_sessions[v]

ClearedByOwner ==
    \A u \in Users : Active(u) /\ user_sessions'[u] = NoSession =>
        \E t \in TaskIds : tasks[t].pc = "clear" /\ tasks[t].user = u /\ Ends(t)

OthersUntouched ==
    \A u \in Users : Active(u) /\ user_sessions'[u] = user_sessions[u] =>
        \/ Collected(u)' = Collected(u)
        \/ \E f \in {Collected(u)'[Len(Collected(u)')]} :
              f.sender = u /\ Collected(u)' = Append(Collected(u), f)

C5_SessionsIsolated == []OwnFilesOnly /\ [][ClearedByOwner /\ OthersUntouched]_vars

\* both requesters have collected a file and a handler of one of them is delivering
C5_Witness ==
    /\ \A u \in Users : Active(u) /\ Len(Collected(u)) >= 1
    /\ \E t \in TaskIds : tasks[t].pc = "send" /\ Len(tasks[t].sent) >= 1

(***************************************************************************)
(* C6, as claimed: while a session is active its collected sequence        *)
(* changes only by the append of one file at its tail.  It fails: a        *)
(* further /sequence of the requester replaces the sequence by an empty    *)
(* one.                                                                    *)
(***************************************************************************)
AppendsOnly(u) ==
    \/ Collected(u)' = Collected(u)
    \/ /\ Len(Collected(u)') = Len(Collected(u)) + 1
       /\ SubSeq(Collected(u)', 1, Len(Collected(u))) = Collected(u)

C6_AppendOnly_Original ==
    [][\A u \in Users : Active(u) /\ Active(u)' => AppendsOnly(u)]_vars

(***************************************************************************)
(* C6, amended: while a session is active its collected sequence changes   *)
(* only by the append of one file at its tail, or, on a further /sequence  *)
(* of the requester, by its replacement with a new, empty sequence.        *)
(***************************************************************************)
C6_AppendOnly ==
    [][\A u \in Users : Active(u) /\ Active(u)' =>
          \/ user_sessions'[u] = user_sessions[u] /\ AppendsOnly(u)
          \/ user_sessions'[u] # user_sessions[u] /\ Collected(u)' = <<>>]_vars

\* a session that has grown to two files, the first of them still in place
C6_Witness ==
    \E u \in Users : Active(u) /\ Len(Collected(u)) = 2
                     /\ Collected(u)[1].episode_number # Collected(u)[2].episode_number

(***************************************************************************)
(* Delivery: what the transport calls of one handler show.                 *)
(***************************************************************************)
\* the place of file i among the transport calls of handler t
SentAt(t, i) == {k \in 1..Len(tasks[t].sent) : tasks[t].sent[k].file = i}

\* the files the handler found in its list when it partitioned it
Seen(t) == 1..tasks[t].seen

FixedQualities == {480, 720, 1080}

\* the files of a fixed bucket, by their own fields
InBucket(t, q) ==
    {i \in Seen(t) : FileOf(t, i).episode_number # None /\ FileOf(t, i).video_quality = q}

\* the files that belong to a bucket, by their own fields
Deliverable(t) ==
    {i \in Seen(t) : /\ FileOf(t, i).episode_number # None
                     /\ FileOf(t, i).video_quality \in common_qualities}

BucketCount(t, i) ==
    Occurrences(tasks[t].quality_groups.q480, i) + Occurrences(tasks[t].quality_groups.q720, i)
    + Occurrences(tasks[t].quality_groups.q1080, i) + Occurrences(tasks[t].quality_groups.other, i)

(***************************************************************************)
(* C7: during one /endsequence delivery the files are sent in the bucket   *)
(* order 480, 720, 1080, other: when a file is sent (or its send fails),   *)
(* every file of each earlier bucket has been sent (or has failed) before. *)
(***************************************************************************)
C7_BucketOrder ==
    \A t \in TaskIds : Partitioned(t) =>
        \A k \in 1..Len(tasks[t].sent) : \A i \in Deliverable(t) :
            Bucket(FileOf(t, i)) < Bucket(FileOf(t, tasks[t].sent[k].file))
                => \E j \in 1..(k - 1) : tasks[t].sent[j].file = i

\* files of three buckets that arrived in the reverse order, one send failed
C7_Witness ==
    \E t \in TaskIds :
        /\ Summarised(t)
        /\ Len(tasks[t].sent) = 3
        /\ Bucket(FileOf(t, 1)) > Bucket(FileOf(t, 2))
        /\ Bucket(FileOf(t, 2)) > Bucket(FileOf(t, 3))
        /\ \E k \in 1..2 : ~tasks[t].sent[k].ok

(***************************************************************************)
(* C8: within each of the buckets 480, 720 and 1080 the files are sent by  *)
(* ascending episode number, two files of one episode number in their      *)
(* arrival order, and the files sent are the files of the bucket, each     *)
(* once.                                                                   *)
(***************************************************************************)
C8_EpisodeOrderStable ==
    \A t \in TaskIds : \A q \in FixedQualities :
        /\ Partitioned(t) =>
              \A k, l \in 1..Len(tasks[t].sent) :
                 LET i == tasks[t].sent[k].file
                     j == tasks[t].sent[l].file
                 IN  k < l /\ i \in InBucket(t, q) /\ j \in InBucket(t, q) =>
                        \/ FileOf(t, i).episode_number < FileOf(t, j).episode_number
                        \/ /\ FileOf(t, i).episode_number = FileOf(t, j).episode_number
                           /\ i < j
        /\ Summarised(t) =>
              \A i \in InBucket(t, q) : Cardinality(SentAt(t, i)) = 1

\* a later episode arrived first, and two files of one episode follow it
C8_Witness ==
    \E t \in TaskIds :
        /\ Summarised(t)
        /\ InBucket(t, 480) = {1, 2, 3}
        /\ FileOf(t, 2).episode_number = FileOf(t, 3).episode_number
        /\ FileOf(t, 1).episode_number > FileOf(t, 2).episode_number
        /\ [k \in 1..3 |-> tasks[t].sent[k].file] = <<2, 3, 1>>

(***************************************************************************)
(* C9: a collected file with neither an episode number nor a quality stays *)
(* in the session but is in no bucket, is never sent, and is counted in    *)
(* the failed count of the summary, which is the number of the session's   *)
(* files that were excluded from delivery.                                 *)
(* It fails: the count is taken from the length the list had before the    *)
(* handler was suspended and the valid files from the list as it is        *)
(* afterwards, so a file that arrives in between makes the count too low.  *)
(***************************************************************************)
C9_InvalidCounted ==
    \A t \in TaskIds : Summarised(t) =>
        LET fs == lists[tasks[t].files]
        IN  /\ \A i \in 1..Len(fs) :
                  fs[i].episode_number = None /\ fs[i].video_quality = None =>
                      BucketCount(t, i) = 0 /\ SentAt(t, i) = {}
            /\ failed_count(t) = Cardinality({i \in Seen(t) : SentAt(t, i) = {}})

(***************************************************************************)
(* C10, as claimed: every collected file that has an episode number or a   *)
(* quality is in exactly one bucket, and a file with an episode number and *)
(* a quality that is unrecognized, outside the enumerated set or not one   *)
(* of 480, 720, 1080 is in the bucket "other" and is sent after the files  *)
(* of the three fixed buckets.  It fails: a file whose quality is          *)
(* unrecognized or outside the enumerated set has no quality, is invalid   *)
(* and is in no bucket.                                                    *)
(***************************************************************************)
SentAfterFixed(t, i) ==
    \A k \in SentAt(t, i) : \A j \in Deliverable(t) :
        FileOf(t, j).video_quality \in FixedQualities =>
            \E l \in 1..(k - 1) : tasks[t].sent[l].file = j

C10_OtherBucket_Original ==
    \A t \in TaskIds : Partitioned(t) => \A i \in Seen(t) :
        /\ (FileOf(t, i).episode_number # None \/ FileOf(t, i).video_quality # None)
              => BucketCount(t, i) = 1
        /\ (FileOf(t, i).episode_number # None
            /\ FileOf(t, i).video_quality \notin FixedQualities)
              => /\ Occurrences(tasks[t].quality_groups.other, i) = 1
                 /\ SentAfterFixed(t, i)
                 /\ Summarised(t) => SentAt(t, i) # {}

(***************************************************************************)
(* C10, amended: every file with an episode number and an enumerated       *)
(* quality is in exactly one bucket; when that quality is not one of 480,  *)
(* 720, 1080 the bucket is "other" and the file is sent after the files of *)
(* the three fixed buckets; a file whose quality is unrecognized or        *)
(* outside the enumerated set is invalid: it is in no bucket and is not    *)
(* sent, whether or not it has an episode number.                          *)
(***************************************************************************)
C10_OtherBucket ==
    \A t \in TaskIds : Partitioned(t) => \A i \in Seen(t) :
        /\ i \in Deliverable(t) => BucketCount(t, i) = 1
        /\ (i \in Deliverable(t) /\ FileOf(t, i).video_quality \notin FixedQualities)
              => /\ Occurrences(tasks[t].quality_groups.other, i) = 1
                 /\ SentAfterFixed(t, i)
                 /\ Summarised(t) => SentAt(t, i) # {}
        /\ FileOf(t, i).video_quality \notin common_qualities
              => BucketCount(t, i) = 0 /\ SentAt(t, i) = {}

\* a 360 file that arrived before a 480 file is sent after it, and a file with
\* episode 4 and the quality tag 999 is left out
C10_Witness ==
    \E t \in TaskIds :
        /\ Summarised(t)
        /\ tasks[t].seen = 3
        /\ FileOf(t, 1).filename = Ep1At360.filename
        /\ FileOf(t, 2).filename = Ep4At999.filename /\ FileOf(t, 2).episode_number = 4
        /\ FileOf(t, 3).video_quality = 480
        /\ [k \in 1..Len(tasks[t].sent) |-> tasks[t].sent[k].file] = <<3, 1>>

\* the files of the bucket b that the handler t delivers
BucketFiles(t, b) == {i \in 1..tasks[t].seen : InSeq(tasks[t].quality_groups[b], i)}

BucketEpisodes(t, b) == {FileOf(t, i).episode_number : i \in BucketFiles(t, b)}

Least(S) == CHOOSE x \in S : \A y \in S : x <= y

Greatest(S) == CHOOSE x \in S : \A y \in S : y <= x

\* the files of the handler t that were excluded from delivery
Excluded(t) == {i \in 1..tasks[t].seen : ~InSeq(DeliveryOrder(tasks[t].quality_groups), i)}

(***************************************************************************)
(* C11: the summary at the end of a session reports, for each bucket that  *)
(* is not empty and for no empty one, the number of files of the bucket    *)
(* and the range E<min>-E<max> of the smallest and the largest episode     *)
(* number among the files of the bucket, and the count of the files        *)
(* excluded as invalid.                                                    *)
(* It fails: the range of the other bucket leaves out episode 0.           *)
(***************************************************************************)
C11_SummaryRanges ==
    \A t \in TaskIds : Summarised(t) =>
        /\ \A b \in {"q480", "q720", "q1080", "other"} :
              IF BucketFiles(t, b) = {} THEN generate_summary(t)[b] = NoLine
              ELSE generate_summary(t)[b] =
                       SummaryLine(Cardinality(BucketFiles(t, b)),
                                   <<"E">> \o Format02d(Least(BucketEpisodes(t, b)))
                                   \o <<"-", "E">> \o Format02d(Greatest(BucketEpisodes(t, b))))
        /\ generate_summary(t).failed = Cardinality(Excluded(t))

\* the same for the three fixed buckets, which holds
C11_FixedRanges ==
    \A t \in TaskIds : Summarised(t) =>
        \A b \in {"q480", "q720", "q1080"} :
            IF BucketFiles(t, b) = {} THEN generate_summary(t)[b] = NoLine
            ELSE generate_summary(t)[b] =
                     SummaryLine(Cardinality(BucketFiles(t, b)),
                                 <<"E">> \o Format02d(Least(BucketEpisodes(t, b)))
                                 \o <<"-", "E">> \o Format02d(Greatest(BucketEpisodes(t, b))))

\* an /endsequence of the requester u begins in the handler t
Begins(u, t) == tasks[t].pc = "idle" /\ tasks'[t].pc # "idle" /\ tasks'[t].user = u

\* the requester has no session, or one without a file
NothingCollected(u) == ~Active(u) \/ Collected(u) = <<>>

(***************************************************************************)
(* C12: an /endsequence of a requester who has no active session, or who   *)
(* has ingested no file, is reported as "no files": nothing is delivered,  *)
(* no summary is produced, no error is raised, and the sessions of the     *)
(* other requesters and the rotation state stay as they are.               *)
(***************************************************************************)
C12_NoFilesReported ==
    /\ [][\A u \in Users, t \in TaskIds :
            (Begins(u, t) /\ NothingCollected(u)) =>
                /\ tasks'[t] = Done(u, "no_files")
                /\ \A v \in Users \ {u} : user_sessions'[v] = user_sessions[v]
                /\ lists' = lists
                /\ <<message_count, prefixes, fixed_anime_name>>' =
                       <<message_count, prefixes, fixed_anime_name>>]_vars
    /\ [](\A t \in TaskIds : tasks[t].result = "no_files" =>
                tasks[t].pc = "done" /\ tasks[t].sent = <<>>)
    /\ [][\A t \in TaskIds : tasks[t].result = "no_files" =>
                tasks'[t] \in {tasks[t], IdleTask}]_vars

\* "no files" has been reported to a requester whose session holds no file,
\* while the other requester has a session with a file
C12_Witness ==
    \E t \in TaskIds :
        /\ tasks[t].pc = "done" /\ tasks[t].result = "no_files" /\ tasks[t].user = "u1"
        /\ Active("u1") /\ Collected("u1") = <<>>
        /\ Active("u2") /\ Collected("u2") # <<>>

\* the handler h, which handles a captioned media of a requester without a
\* session, takes a step
MediaStep(h) ==
    /\ handlers'[h] # handlers[h]
    /\ handlers[h].kind = "media" \/ handlers'[h].kind = "media"

(***************************************************************************)
(* C13: a file of a requester who has no active session is reported as     *)
(* "inactive session": it is collected into no session, no session is      *)
(* created, and message_count, the prefix list and the fixed name are not  *)
(* changed.                                                                *)
(* It fails: the file's caption is formatted, which counts a message.      *)
(***************************************************************************)
C13_InactiveSession ==
    [][\A h \in HandlerIds : MediaStep(h) =>
          /\ user_sessions' = user_sessions
          /\ lists' = lists
          /\ <<message_count, prefixes, fixed_anime_name>>' =
                 <<message_count, prefixes, fixed_anime_name>>]_vars

\* the part of it that holds: nothing is collected and no session is created
C13_NothingCollected ==
    [][\A h \in HandlerIds : MediaStep(h) =>
          user_sessions' = user_sessions /\ lists' = lists]_vars

\* a /name with an argument is processed in this step
NameProcessed == \E h \in HandlerIds : handlers[h].pc = "idle" /\ handlers'[h].kind = "name"

(***************************************************************************)
(* C14: the fixed name is process-wide and sticky: after a /name VALUE of  *)
(* any requester every later call of the formatter, for any requester,     *)
(* takes that value as the anime name until a reset, and after a           *)
(* /name reset every later call takes the detected name (the cleaned       *)
(* title, else "Unknown Anime") until the next /name VALUE.  That is: the  *)
(* fixed name changes in the steps of /name only, and a call formats with  *)
(* the fixed name of its moment.                                           *)
(* It fails: load_user_settings puts back the name stored for a requester. *)
(***************************************************************************)
C14_NameSticky ==
    /\ [][fixed_anime_name' # fixed_anime_name => NameProcessed]_vars
    /\ [][(calls' # calls /\ last_call'.caption # <<>>) =>
             last_call'.formatted_caption =
                 formatted(current_prefix(message_count', prefixes),
                           AnalysisOf(Strip(last_call'.caption)), fixed_anime_name)]_vars

\* the part of it that holds: a call formats with the fixed name of its moment
C14_NameOfTheMoment ==
    [][(calls' # calls /\ last_call'.caption # <<>>) =>
          last_call'.formatted_caption =
              formatted(current_prefix(message_count', prefixes),
                        AnalysisOf(Strip(last_call'.caption)), fixed_anime_name)]_vars

(***************************************************************************)
(* The parser on the texts of /format.                                     *)
(***************************************************************************)
\* the call has formatted a text
Parsed == last_call # NoCall /\ last_call.formatted_caption # <<>>

\* what the parser found in the text of the call
Found == AnalysisOf(Strip(last_call.caption))

\* C15: the tag "[S<SS>-E<EE>]" that the formatter has written, and the whole
\* caption it has written, are read by extract_episode_info as the season SS
\* and the episode EE that were written into them
C15_TagRoundTrip ==
    Parsed =>
        /\ extract_episode_info(Tag(Found.season, Found.episode)).season = Found.season
        /\ extract_episode_info(Tag(Found.season, Found.episode)).episode = Found.episode
        /\ extract_episode_info(last_call.formatted_caption).season = Found.season
        /\ extract_episode_info(last_call.formatted_caption).episode = Found.episode

\* a string of decimal digits
IsDigits(s) == \A i \in 1..Len(s) : s[i] \in Digits

\* s is the digit run written in the text, padded on the left with zeros to two
\* digits when it is shorter and unchanged when it is not
PaddedRun(s, run) ==
    /\ IsDigits(s)
    /\ Len(s) = (IF Len(run) < 2 THEN 2 ELSE Len(run))
    /\ ToInt(s) = ToInt(run)
    /\ SubSeq(s, Len(s) - Len(run) + 1, Len(s)) = run

\* C16: the season and the episode that extract_episode_info returns are digit
\* strings of two digits or more, and for a text "S<run> E<run>" they are the
\* two runs of the text, padded on the left to two digits and never cut
C16_PaddedDigits ==
    Parsed =>
        /\ IsDigits(extract_episode_info(last_call.caption).season)
        /\ IsDigits(extract_episode_info(last_call.caption).episode)
        /\ Len(extract_episode_info(last_call.caption).season) >= 2
        /\ Len(extract_episode_info(last_call.caption).episode) >= 2
        /\ \A s \in SeasonRuns, e \in EpisodeRuns :
              last_call.caption = SeasonEpisode(s, e) =>
                  /\ PaddedRun(extract_episode_info(last_call.caption).season, s)
                  /\ PaddedRun(extract_episode_info(last_call.caption).episode, e)

\* "S1 E345" has been read: the season padded to 01, the episode 345 as it is
C16_Witness ==
    /\ Parsed
    /\ last_call.caption = SeasonEpisode(<<"1">>, <<"3", "4", "5">>)
    /\ extract_episode_info(last_call.caption).season = <<"0", "1">>
    /\ extract_episode_info(last_call.caption).episode = <<"3", "4", "5">>

\* C17: a text written in one family, or in several, is read as the season,
\* the episode and the title of the first of the families structured,
\* channel with the title before the season, channel with the season before
\* the title, bracketed, unbracketed that it matches; a text of no family is
\* read as ("01", "01", the whole trimmed text)
C17_FirstFamilyWins ==
    Parsed =>
        \A c \in EpisodeCases :
            last_call.caption = c.text =>
                extract_episode_info(last_call.caption)
                    = EpisodeInfo(c.season, c.episode, c.title)

\* a text with a channel layout and a bracketed tag has been read as the
\* channel layout says
C17_Witness ==
    /\ Parsed
    /\ \E c \in EpisodeCases :
          /\ last_call.caption = c.text
          /\ Search(channel_se, c.text, TRUE) # NoMatch
          /\ Search(bracket_se, c.text, TRUE) # NoMatch
          /\ Search(simple_se, c.text, TRUE) # NoMatch
          /\ extract_episode_info(c.text) = EpisodeInfo(c.season, c.episode, c.title)
          /\ c.episode # Zfill2(Group(c.text, Search(bracket_se, c.text, TRUE), 2))

\* the enumerated quality values
QualityValues == {144, 240, 360, 480, 720, 1080, 1440, 2160}

\* C18: "[<s>p]" is read as "<s>P" when s is an enumerated quality value, and
\* as "720P" when s is a digit run whose value is not enumerated
C18_BracketedQuality ==
    Parsed =>
        /\ \A v \in QualityValues :
              last_call.caption = BracketedQuality(Decimal(v)) =>
                  extract_quality(last_call.caption) = Decimal(v) \o <<"P">>
        /\ \A s \in QualityRuns :
              ToInt(s) \notin QualityValues /\ last_call.caption = BracketedQuality(s) =>
                  extract_quality(last_call.caption) = <<"7", "2", "0", "P">>

\* "[2160p]" has been read as 2160P and written into the caption
C18_Witness ==
    /\ Parsed
    /\ last_call.caption = BracketedQuality(Decimal(2160))
    /\ extract_quality(last_call.caption) = <<"2", "1", "6", "0", "P">>
    /\ Contains(last_call.formatted_caption, <<"[", "2", "1", "6", "0", "P", "]">>)

\* the digits that the k-th family of extract_quality finds in the text
FamilyFinds(text, k) == Search(quality_patterns[k], text, TRUE) # NoMatch

FamilyDigits(text, k) == Group(text, Search(quality_patterns[k], text, TRUE), 1)

\* the k-th family finds digits whose value is enumerated
FamilyYields(text, k) ==
    FamilyFinds(text, k) /\ ToInt(FamilyDigits(text, k)) \in QualityValues

\* the digits of the first family in list order that yields, with "P"; "720P"
\* when no family yields
FirstYield(text) ==
    IF \A k \in 1..Len(quality_patterns) : ~FamilyYields(text, k)
    THEN <<"7", "2", "0", "P">>
    ELSE FamilyDigits(text, CHOOSE k \in 1..Len(quality_patterns) :
                                /\ FamilyYields(text, k)
                                /\ \A j \in 1..(k - 1) : ~FamilyYields(text, j))
         \o <<"P">>

\* C19: extract_quality returns the digits of the first family, in list order,
\* whose digits are an enumerated value; a family that finds other digits is
\* passed over, and "720P" is returned only when no family yields
C19_FirstEnumeratedFamily ==
    Parsed =>
        /\ extract_quality(last_call.caption) = FirstYield(last_call.caption)
        /\ \A c \in QualityCases :
              last_call.caption = c.text => extract_quality(last_call.caption) = c.quality

\* the first family has found digits that are not enumerated, and the quality
\* of a later family has been returned
C19_Witness ==
    /\ Parsed
    /\ FamilyFinds(last_call.caption, 1)
    /\ ~FamilyYields(last_call.caption, 1)
    /\ FamilyYields(last_call.caption, 2)
    /\ extract_quality(last_call.caption) = FamilyDigits(last_call.caption, 2) \o <<"P">>
    /\ extract_quality(last_call.caption) # <<"7", "2", "0", "P">>

\* the canonical quality strings
CanonicalQualities == {Decimal(v) \o <<"P">> : v \in QualityValues}

\* C20: extract_quality returns one of the canonical strings "144P", "240P",
\* "360P", "480P", "720P", "1080P", "1440P", "2160P" and no other string
C20_CanonicalQuality ==
    Parsed => extract_quality(last_call.caption) \in CanonicalQualities

\* what does hold: the string is a digit run with an enumerated value,
\* followed by an uppercase P
C20_EnumeratedValue ==
    Parsed =>
        /\ extract_quality(last_call.caption)[Len(extract_quality(last_call.caption))] = "P"
        /\ IsDigits(SubSeq(extract_quality(last_call.caption), 1,
                           Len(extract_quality(last_call.caption)) - 1))
        /\ ToInt(SubSeq(extract_quality(last_call.caption), 1,
                        Len(extract_quality(last_call.caption)) - 1)) \in QualityValues

\* the codes of the language table
LanguageCodes == {<<"T", "a", "m">>, <<"E", "n", "g">>, <<"M", "u", "l", "t", "i">>,
                  <<"D", "u", "a", "l">>}

\* the k-th key of the table is in t, and no earlier key is
FirstKeyIn(t, k) ==
    /\ Contains(t, language_mappings[k][1])
    /\ \A j \in 1..(k - 1) : ~Contains(t, language_mappings[j][1])

NoKeyIn(t) == \A k \in 1..Len(language_mappings) : ~Contains(t, language_mappings[k][1])

\* the value of the audio field of the text, stripped and lowercased
HasAudioField(text) == Search(audio_field, text, TRUE) # NoMatch

AudioValue(text) == Strip(ToLower(Group(text, Search(audio_field, text, TRUE), 1)))

\* C21: extract_language returns Tam, Eng, Multi, Dual or the empty string: the
\* code of the first entry of the table whose key is in the value of the audio
\* field; without an audio field the code of the first entry whose key is in
\* the lowercased text; the empty string when no key is in the text
C21_LanguageByTableOrder ==
    Parsed =>
        /\ extract_language(last_call.caption) \in LanguageCodes \cup {<<>>}
        /\ \A k \in 1..Len(language_mappings) :
              /\ HasAudioField(last_call.caption)
                    /\ FirstKeyIn(AudioValue(last_call.caption), k)
                    => extract_language(last_call.caption) = language_mappings[k][2]
              /\ ~HasAudioField(last_call.caption)
                    /\ FirstKeyIn(ToLower(last_call.caption), k)
                    => extract_language(last_call.caption) = language_mappings[k][2]
        /\ NoKeyIn(ToLower(last_call.caption)) => extract_language(last_call.caption) = <<>>
        /\ \A c \in LanguageCases :
              last_call.caption = c.text => extract_language(last_call.caption) = c.language

\* the audio field has named a language other than the first one of the text
C21_Witness ==
    /\ Parsed
    /\ HasAudioField(last_call.caption)
    /\ FirstKeyIn(AudioValue(last_call.caption), 9)
    /\ FirstKeyIn(ToLower(last_call.caption), 2)
    /\ extract_language(last_call.caption) = <<"D", "u", "a", "l">>
    /\ Contains(last_call.formatted_caption, <<"D", "u", "a", "l">>)

(***************************************************************************)
(* The formatted caption.                                                  *)
(***************************************************************************)
\* the prefix of a call: the one of the rotation, "/leech -n" for the empty list
PrefixOf(call) ==
    IF call.prefixes = <<>> THEN <<"/", "l", "e", "e", "c", "h", " ", "-", "n">>
    ELSE Rotated(call.prefixes, call.message_count)

\* ".mp4" if the caption holds it in any case, else ".avi", else ".mkv"
SuffixOf(caption) ==
    IF Contains(ToLower(caption), <<".", "m", "p", "4">>) THEN <<".", "m", "p", "4">>
    ELSE IF Contains(ToLower(caption), <<".", "a", "v", "i">>) THEN <<".", "a", "v", "i">>
         ELSE <<".", "m", "k", "v">>

\* "<prefix> [S<season>-E<episode>] " and " [<quality>] [Single]<ext>" of a call
CaptionFront(call) ==
    PrefixOf(call) \o <<" ">>
        \o Tag(AnalysisOf(Strip(call.caption)).season,
               AnalysisOf(Strip(call.caption)).episode)
        \o <<" ">>

CaptionBack(call) ==
    <<" ", "[">> \o AnalysisOf(Strip(call.caption)).quality
        \o <<"]", " ", "[", "S", "i", "n", "g", "l", "e", "]">> \o SuffixOf(call.caption)

\* C22: the formatted caption of a caption that is not empty is
\* "<prefix> [S<season>-E<episode>] <name> [<quality>] [Single]<ext>": the
\* prefix of the rotation or "/leech -n", the season, episode and quality of
\* the extractors, a name that is not empty, and the extension .mp4, .avi or
\* .mkv that the caption names
C22_CanonicalCaption ==
    Formatted =>
        /\ StartsWith(last_call.formatted_caption, CaptionFront(last_call))
        /\ EndsWith(last_call.formatted_caption, CaptionBack(last_call))
        /\ Len(last_call.formatted_caption)
              > Len(CaptionFront(last_call)) + Len(CaptionBack(last_call))
        /\ \A c \in ExtensionCases :
              last_call.caption = c.text => EndsWith(last_call.formatted_caption, c.suffix)

\* a caption that names an .MP4 file has been formatted with the empty prefix
\* list and a fixed name
C22_Witness ==
    /\ Formatted
    /\ last_call.prefixes = <<>>
    /\ Contains(last_call.caption, <<".", "M", "P", "4">>)
    /\ last_call.formatted_caption
          = <<"/", "l", "e", "e", "c", "h", " ", "-", "n", " ", "[", "S", "0", "1", "-",
              "E", "0", "3", "]", " ", "X", " ", "[", "7", "2", "0", "P", "]", " ", "[",
              "S", "i", "n", "g", "l", "e", "]", ".", "m", "p", "4">>

\* the step is a call of parse_caption on the empty string
EmptyCall == calls' = calls + 1 /\ last_call'.caption = <<>>

\* C23: parse_caption on the empty string returns the empty string and leaves
\* the prefix list, the fixed name, every session and every list of files as
\* they were
C23_EmptyInEmptyOut ==
    [][EmptyCall =>
            /\ last_call'.formatted_caption = <<>>
            /\ UNCHANGED <<prefixes, fixed_anime_name, user_sessions, lists, tasks, db>>]_vars

\* the empty string has been formatted on a bot with a fixed name, a changed
\* prefix list and an active session
C23_Witness ==
    /\ last_call # NoCall
    /\ last_call.caption = <<>>
    /\ last_call.formatted_caption = <<>>
    /\ fixed_anime_name # <<>>
    /\ prefixes # initial_prefixes
    /\ \E u \in Users : user_sessions[u] # NoSession

(***************************************************************************)
(* The entries of the bulk listings.                                       *)
(***************************************************************************)
\* handler h has parsed its listing
BulkParsing(h) == handlers[h].kind = "bulk" /\ handlers[h].pc \in {"reply", "store"}

\* the one entry that the line "<n>. [<tag>] <title> [<q>p] - <url>" stands for
ShapedEntry(e, tag, title, q, url) ==
    /\ e.anime_name = title
    /\ e.episode = tag
    /\ e.quality = q \o <<"p">>
    /\ e.file_type = <<"S", "i", "n", "g", "l", "e">>
    /\ e.url = url

\* C24: the line "<n>. [<tag>] <title> [<q>p] - <url>" yields one entry: the
\* title as animeName, the bracketed tag as episodeTag, "<q>p" as quality,
\* Single as fileType and the url
C24_BulkLine ==
    \A h \in HandlerIds, tag \in EpisodeTags, q \in BulkQualities :
        BulkParsing(h) /\ handlers[h].text = BulkLine(<<"1">>, tag, MyShow, q, FileUrl) =>
            /\ Len(handlers[h].entries) = 1
            /\ ShapedEntry(handlers[h].entries[1], tag, MyShow, q, FileUrl)

\* what does hold: the same for the tags without a hyphen before the E
C24_UnhyphenatedTag ==
    \A h \in HandlerIds, tag \in EpisodeTags, q \in BulkQualities :
        /\ BulkParsing(h)
        /\ handlers[h].text = BulkLine(<<"1">>, tag, MyShow, q, FileUrl)
        /\ ~Contains(tag, <<"-", "E">>)
        => /\ Len(handlers[h].entries) = 1
           /\ ShapedEntry(handlers[h].entries[1], tag, MyShow, q, FileUrl)

\* the whole line is "<digits>. <content> - <url>", the url beginning with
\* http:// or https:// and holding no whitespace
WholeShape(line) == MatchAt(bulk_line \o <<AtEnd>>, line, 1, FALSE) # Fail

\* the stripped lines of a text that have the whole shape, in line order
ShapedLinesOf(text) ==
    SelectSeq([k \in 1..Len(SplitLines(Strip(text))) |-> Strip(SplitLines(Strip(text))[k])],
              WholeShape)

\* C25: the entries of a listing are those of its lines that have the whole
\* shape "<digits>. <content> - <url>", one entry per such line and in line
\* order; every other line yields no entry
C25_WholeLineShape ==
    \A h \in HandlerIds :
        BulkParsing(h) =>
            /\ Len(handlers[h].entries) = Len(ShapedLinesOf(handlers[h].text))
            /\ \A k \in 1..Len(handlers[h].entries) :
                  /\ k <= Len(ShapedLinesOf(handlers[h].text))
                  /\ Contains(ShapedLinesOf(handlers[h].text)[k], handlers[h].entries[k].url)
                  /\ Contains(ShapedLinesOf(handlers[h].text)[k],
                              handlers[h].entries[k].file_name)

\* the stripped lines of a text that begin with the shape, in line order
BeginsWithShape(line) == MatchAt(bulk_line, line, 1, FALSE) # Fail

BeginningLinesOf(text) ==
    SelectSeq([k \in 1..Len(SplitLines(Strip(text))) |-> Strip(SplitLines(Strip(text))[k])],
              BeginsWithShape)

\* what does hold: one entry, in line order, for every line that begins with
\* the shape, whatever follows the url; none for a blank line, a line with no
\* url and a line with no number
C25_LineBeginsWithShape ==
    \A h \in HandlerIds :
        BulkParsing(h) =>
            /\ Len(handlers[h].entries) = Len(BeginningLinesOf(handlers[h].text))
            /\ \A k \in 1..Len(handlers[h].entries) :
                  /\ Contains(BeginningLinesOf(handlers[h].text)[k], handlers[h].entries[k].url)
                  /\ Contains(BeginningLinesOf(handlers[h].text)[k],
                              handlers[h].entries[k].file_name)

(***************************************************************************)
(* Overlapping /endsequence handlers and updates that arrive while one is  *)
(* suspended.                                                              *)
(***************************************************************************)
\* the k-th transport call of handler t has delivered a file
Delivered(t, k) == k \in 1..Len(tasks[t].sent) /\ tasks[t].sent[k].ok

\* two deliveries of the handlers are deliveries of the same file of the same
\* session
SameFile(t1, k1, t2, k2) ==
    /\ tasks[t1].files # NoSession
    /\ tasks[t1].files = tasks[t2].files
    /\ tasks[t1].sent[k1].file = tasks[t2].sent[k2].file

\* C26: no file of a session is delivered twice to the requester's chat,
\* whether by one /endsequence handler or by two that overlap
C26_DeliveredOnce ==
    \A t1 \in TaskIds, t2 \in TaskIds :
        \A k1 \in 1..Len(tasks[t1].sent), k2 \in 1..Len(tasks[t2].sent) :
            /\ Delivered(t1, k1) /\ Delivered(t2, k2)
            /\ SameFile(t1, k1, t2, k2)
            => t1 = t2 /\ k1 = k2

\* what does hold: one handler delivers no file twice
C26_OncePerHandler ==
    \A t \in TaskIds :
        \A k1 \in 1..Len(tasks[t].sent), k2 \in 1..Len(tasks[t].sent) :
            tasks[t].sent[k1].file = tasks[t].sent[k2].file => k1 = k2

\* C27: no /endsequence handler that has passed the check of the files ends
\* with an error: the session it clears is still there
C27_ClearFindsSession ==
    \A t \in TaskIds : tasks[t].pc = "done" => tasks[t].result # "KeyError"

\* the step is the del of handler t, made when the requester's key holds
\* another list than the one the handler has read its files from
ClearsOther(t) ==
    /\ tasks[t].pc = "clear" /\ tasks'[t].pc = "done"
    /\ user_sessions[tasks[t].user] # NoSession
    /\ user_sessions[tasks[t].user] # tasks[t].files

\* C28: an /endsequence clears only the session whose files it has read: a
\* session begun by /sequence while the handler was suspended, and the files
\* collected in it, are still there after the handler has ended
C28_ClearsOwnSession ==
    [][\A t \in TaskIds :
          ClearsOther(t) =>
              /\ user_sessions'[tasks[t].user] = user_sessions[tasks[t].user]
              /\ lists'[user_sessions[tasks[t].user]] = lists[user_sessions[tasks[t].user]]]_vars

\* the step is the del of handler t after its summary, made on the list the
\* handler has read its files from
ClearsOwn(t) ==
    /\ tasks[t].pc = "clear" /\ tasks'[t].pc = "done"
    /\ tasks[t].result = "summary"
    /\ user_sessions[tasks[t].user] = tasks[t].files

\* handler t has given the i-th file of its list to the transport
Attempted(t, i) == i \in SentFiles(t)

\* the i-th file of the list is one of the file_count files of the summary and
\* none of its sorted ones
CountedFailed(t, i) == i <= tasks[t].file_count /\ ~InSeq(tasks[t].valid_files, i)

\* C29: when an /endsequence clears the session, every file of the session has
\* been given to the transport or is counted as failed in the summary, also a
\* file that arrived while the handler was suspended
C29_NoneDropped ==
    [][\A t \in TaskIds :
          ClearsOwn(t) =>
              \A i \in 1..Len(lists[tasks[t].files]) :
                  Attempted(t, i) \/ CountedFailed(t, i)]_vars

\* C29, its consequence: the sorted count of a summary is at most its total
C29_SortedWithinTotal ==
    \A t \in TaskIds : Summarised(t) => processed_count(t) <= tasks[t].file_count

\* what does hold: every file the handler has seen when it partitioned the
\* list is given to the transport or is none of the sorted ones
C29_SeenAccounted ==
    \A t \in TaskIds : Summarised(t) =>
        \A i \in 1..tasks[t].seen :
            Attempted(t, i) \/ ~InSeq(tasks[t].valid_files, i)

(***************************************************************************)
(* The formatted caption as the filename of a file of a session.           *)
(***************************************************************************)
\* the file that handle_sequence_file makes of a document whose name is the
\* string the call has returned
Ingested(call) == VideoFile(call.formatted_caption, <<>>, "document", call.user)

\* int() of the episode and of the quality the parser has found in the caption
CaptionEpisode(call) == ToInt(AnalysisOf(Strip(call.caption)).episode)

CaptionQuality(call) ==
    ToInt(SubSeq(AnalysisOf(Strip(call.caption)).quality, 1,
                 Len(AnalysisOf(Strip(call.caption)).quality) - 1))

\* the buckets of a session that holds the file alone
GroupsOfOne(f) == QualityGroups(<<f>>, IF IsValidFile(f) THEN <<1>> ELSE <<>>)

BucketOfQuality(q) ==
    CASE q = 480 -> "q480" [] q = 720 -> "q720" [] q = 1080 -> "q1080" [] OTHER -> "other"

\* the file is in the bucket b and in no other
InBucketAlone(groups, b) ==
    /\ groups[b] = <<1>>
    /\ Len(groups.q480) + Len(groups.q720) + Len(groups.q1080) + Len(groups.other) = 1

\* the file f has the episode e and the quality q, is valid and is in the
\* bucket of q
FileOfCaption(f, e, q) ==
    /\ f.episode_number = e
    /\ f.video_quality = q
    /\ IsValidFile(f)
    /\ With(GroupsOfOne(f), LAMBDA groups : InBucketAlone(groups, BucketOfQuality(q)))

RoundTrips(call) ==
    With(Ingested(call),
         LAMBDA f : FileOfCaption(f, CaptionEpisode(call), CaptionQuality(call)))

HasEpisodeTag(t) == SearchEpisode(t) # <<>>

(***************************************************************************)
(* C30, as claimed: for every caption that is not empty and every fixed    *)
(* name, a file whose filename is the formatted caption has the episode    *)
(* number and the quality of the caption, is valid and is in the bucket of *)
(* that quality.  It fails when the prefix of the call holds a tag         *)
(* [S<digits>-E<digits>]: the episode number is read from the prefix.      *)
(***************************************************************************)
C30_RoundTrip_Original == Formatted => RoundTrips(last_call)

\* C30: for every caption that is not empty, every fixed name and every
\* prefix that holds no tag [S<digits>-E<digits>], a file whose filename is
\* the formatted caption has the episode number and the quality of the
\* caption, is valid and is in the bucket of that quality alone
C30_RoundTrip ==
    Formatted /\ ~HasEpisodeTag(PrefixOf(last_call)) => RoundTrips(last_call)

C30_Witness ==
    /\ Formatted
    /\ last_call.caption = <<"S", "1", "2", " ", "E", "3", "4", "5", " ", "[", "1", "4", "4", "p", "]">>
    /\ Contains(last_call.formatted_caption, TaggedName)
    /\ With(Ingested(last_call),
            LAMBDA f : /\ f.episode_number = 345
                       /\ f.video_quality = 144
                       /\ GroupsOfOne(f).other = <<1>>)

====
